-------------------------- MODULE QxReplayProofs --------------------------
(***************************************************************************)
(* Proofs for QxReplay and QxStat, for any number of checkpoints, backends, *)
(* readers, entities and slots.  The statistics table and the replay       *)
(* transactions have an inductive invariant each, because every step of    *)
(* QxReplay is a step of the table or leaves it alone; a third one relates *)
(* the counter of recovery to the calls that were reported to it.          *)
(***************************************************************************)
EXTENDS QxReplay, FiniteSetTheorems, WellFoundedInduction, TLAPS

-----------------------------------------------------------------------------
(* The statistics table.                                                   *)

StatNext ==
    \/ UNCHANGED statVars
    \/ \E k \in Keys : CountReport(k)
    \/ \E kind \in StatKinds : ResetKind(kind)
    \/ ResetAll
    \/ StatCrash
    \/ \E r \in Readers : \E k \in Keys : Lookup(r, k)
    \/ \E r \in Readers : Read(r)

\* A slot counts no more than was reported of its entity.
SlotsReported ==
    \A i \in Slots : IF slot[i].key = NoKey THEN slot[i].n = 0
                     ELSE slot[i].n <= total[slot[i].key]

\* A pointer leads to the entity looked for until all statistics are reset.
PointersGood ==
    \A r \in Readers :
        /\ reader[r].pc # "idle" => reader[r].key \in Keys
        /\ reader[r].pc = "found" /\ reader[r].clean /\ reader[r].at # 0 =>
              slot[reader[r].at].key = reader[r].key

StatInv ==
    StatTypeOK /\ OneSlotPerEntity /\ SlotsReported /\ PointersGood /\ ShownWasReported

(* What a report does to the table.                                        *)
LEMMA CountedEffect ==
    ASSUME StatTypeOK, NEW k \in Keys, NEW i \in Slots
    PROVE  \/ Counted(k)[i] = slot[i]
           \/ /\ Counted(k)[i] = [key |-> k, n |-> slot[i].n + 1]
              /\ slot[i].key = k \/ (slot[i].key = NoKey /\ Entry(k) = {})
              /\ \A j \in Slots : j # i => Counted(k)[j] = slot[j]
<1> DEFINE S == IF Entry(k) # {} THEN Entry(k) ELSE Entry(NoKey)
<1>1. Counted(k) = [j \in Slots |-> IF First(j, S) THEN [key |-> k, n |-> slot[j].n + 1]
                                    ELSE slot[j]]
  BY DEF Counted
<1>2. S \subseteq Slots /\ (i \in S => slot[i].key = k \/ (slot[i].key = NoKey /\ Entry(k) = {}))
  <2>1. CASE Entry(k) # {}
    <3>1. S = Entry(k) BY <2>1
    <3> HIDE DEF S
    <3>2. S \subseteq Slots BY <3>1 DEF Entry
    <3>3. i \in S => slot[i].key = k BY <3>1 DEF Entry
    <3> QED BY <3>2, <3>3
  <2>2. CASE Entry(k) = {}
    <3>1. S = Entry(NoKey) BY <2>2
    <3> HIDE DEF S
    <3> QED BY <2>2, <3>1 DEF Entry
  <2> QED BY <2>1, <2>2
<1> HIDE DEF S
<1>3. CASE First(i, S)
  <2>1. i \in S BY <1>3 DEF First
  <2>2. ASSUME NEW j \in Slots, First(j, S) PROVE j = i
    <3>1. j <= i /\ i <= j BY <1>3, <2>1, <2>2 DEF First
    <3> QED BY <3>1 DEF Slots
  <2> QED BY <1>1, <1>2, <1>3, <2>1, <2>2
<1>4. CASE ~First(i, S) BY <1>1, <1>4
<1> QED BY <1>3, <1>4

LEMMA StatTypesKept ==
    ASSUME StatTypeOK, StatNext
    PROVE  StatTypeOK'
<1>1. /\ slot \in [Slots -> [key : Keys \cup {NoKey}, n : Nat]]
      /\ reader \in [Readers -> [pc : {"idle", "found", "shown"}, key : Keys \cup {NoKey},
                                 at : 0..SlotCount, clean : BOOLEAN, shown : Nat]]
      /\ total \in [Keys -> Nat]
      /\ resets \in 0..MaxResets
  BY DEF StatTypeOK
<1>2. Unused \in [key : Keys \cup {NoKey}, n : Nat] BY DEF Unused
<1>3. Idle \in [pc : {"idle", "found", "shown"}, key : Keys \cup {NoKey},
                at : 0..SlotCount, clean : BOOLEAN, shown : Nat]
  BY StatAssumption DEF Idle
<1>4. ASSUME resets < MaxResets PROVE resets + 1 \in 0..MaxResets
  BY <1>1, <1>4, StatAssumption
<1>5. CASE UNCHANGED statVars BY <1>1, <1>5 DEF statVars, StatTypeOK
<1>6. ASSUME NEW k \in Keys, CountReport(k) PROVE StatTypeOK'
  <2>1. Counted(k) \in [Slots -> [key : Keys \cup {NoKey}, n : Nat]]
    BY <1>1 DEF Counted
  <2> QED BY <1>1, <1>6, <2>1 DEF CountReport, StatTypeOK
<1>7. ASSUME NEW kind \in StatKinds, ResetKind(kind) PROVE StatTypeOK'
  <2>1. slot' \in [Slots -> [key : Keys \cup {NoKey}, n : Nat]]
    BY <1>1, <1>7 DEF ResetKind
  <2> QED BY <1>1, <1>4, <1>7, <2>1 DEF ResetKind, StatTypeOK
<1>8. CASE ResetAll
  <2>1. slot' \in [Slots -> [key : Keys \cup {NoKey}, n : Nat]]
    BY <1>2, <1>8 DEF ResetAll
  <2>2. reader' \in [Readers -> [pc : {"idle", "found", "shown"}, key : Keys \cup {NoKey},
                                 at : 0..SlotCount, clean : BOOLEAN, shown : Nat]]
    BY Zenon, <1>1, <1>8 DEF ResetAll
  <2> QED BY <1>1, <1>4, <1>8, <2>1, <2>2 DEF ResetAll, StatTypeOK
<1>9. CASE StatCrash
  <2>1. slot' \in [Slots -> [key : Keys \cup {NoKey}, n : Nat]]
    BY <1>2, <1>9 DEF StatCrash
  <2>2. reader' \in [Readers -> [pc : {"idle", "found", "shown"}, key : Keys \cup {NoKey},
                                 at : 0..SlotCount, clean : BOOLEAN, shown : Nat]]
    BY <1>3, <1>9 DEF StatCrash
  <2> QED BY <1>1, <1>4, <1>9, <2>1, <2>2 DEF StatCrash, StatTypeOK
<1>10. ASSUME NEW r \in Readers, NEW k \in Keys, Lookup(r, k) PROVE StatTypeOK'
  <2>1. PICK i \in 0..SlotCount : reader' = [reader EXCEPT ![r] =
                  [pc |-> "found", key |-> k, at |-> i, clean |-> TRUE, shown |-> 0]]
    BY Zenon, <1>10 DEF Lookup
  <2>2. reader' \in [Readers -> [pc : {"idle", "found", "shown"}, key : Keys \cup {NoKey},
                                 at : 0..SlotCount, clean : BOOLEAN, shown : Nat]]
    BY <1>1, <2>1
  <2> QED BY <1>1, <1>10, <2>2 DEF Lookup, StatTypeOK
<1>11. ASSUME NEW r \in Readers, Read(r) PROVE StatTypeOK'
  <2>1. reader[r].at # 0 => reader[r].at \in Slots BY <1>1, StatAssumption DEF Slots
  <2>2. PICK n \in Nat : n = IF reader[r].at = 0 THEN 0 ELSE slot[reader[r].at].n
    BY <1>1, <2>1
  <2>3. reader' = [reader EXCEPT ![r] = [reader[r] EXCEPT !.pc = "shown", !.shown = n]]
    BY <1>11, <2>2 DEF Read
  <2>4. reader' \in [Readers -> [pc : {"idle", "found", "shown"}, key : Keys \cup {NoKey},
                                 at : 0..SlotCount, clean : BOOLEAN, shown : Nat]]
    BY Zenon, <1>1, <2>3
  <2> QED BY <1>1, <1>11, <2>4 DEF Read, StatTypeOK
<1> QED BY <1>5, <1>6, <1>7, <1>8, <1>9, <1>10, <1>11 DEF StatNext

(* No step gives an entity a second slot.                                  *)
LEMMA OneSlotKept ==
    ASSUME StatTypeOK, OneSlotPerEntity, StatNext
    PROVE  OneSlotPerEntity'
<1>1. CASE slot' = slot BY <1>1 DEF OneSlotPerEntity
<1>2. CASE \A i \in Slots : slot'[i] = Unused
  BY <1>2 DEF OneSlotPerEntity, Unused
<1>3. ASSUME NEW k \in Keys, slot' = Counted(k) PROVE OneSlotPerEntity'
  <2> SUFFICES ASSUME NEW i \in Slots, NEW j \in Slots, i # j,
                      slot'[i].key # NoKey, slot'[i].key = slot'[j].key
               PROVE  FALSE
    BY DEF OneSlotPerEntity
  <2>1. CASE slot'[i] = slot[i] /\ slot'[j] = slot[j] BY <2>1 DEF OneSlotPerEntity
  <2>2. ASSUME NEW a \in Slots, NEW b \in Slots, a # b, slot'[a].key = slot'[b].key,
               slot'[a] # slot[a]
        PROVE  FALSE
    <3>1. /\ slot'[a] = [key |-> k, n |-> slot[a].n + 1]
          /\ slot[a].key = k \/ (slot[a].key = NoKey /\ Entry(k) = {})
          /\ slot'[b] = slot[b]
      BY <1>3, <2>2, CountedEffect
    <3>2. slot[b].key = k BY <2>2, <3>1
    <3>3. slot[a].key = k BY <3>1, <3>2 DEF Entry
    <3>4. k # NoKey BY StatAssumption
    <3> QED BY <2>2, <3>2, <3>3, <3>4 DEF OneSlotPerEntity
  <2> QED BY <2>1, <2>2
<1>4. ASSUME NEW kind \in StatKinds, ResetKind(kind) PROVE OneSlotPerEntity'
  <2>1. \A i \in Slots : slot'[i].key = slot[i].key
    BY <1>4 DEF ResetKind, StatTypeOK
  <2> QED BY <2>1 DEF OneSlotPerEntity
<1> QED BY Zenon, <1>1, <1>2, <1>3, <1>4 DEF StatNext, statVars, CountReport, ResetAll, StatCrash,
          Lookup, Read

LEMMA ReportedKept ==
    ASSUME StatTypeOK, SlotsReported, StatNext
    PROVE  SlotsReported'
<1>1. CASE slot' = slot /\ total' = total BY <1>1 DEF SlotsReported
<1>2. CASE \A i \in Slots : slot'[i] = Unused
  BY <1>2 DEF SlotsReported, Unused
<1>3. ASSUME NEW k \in Keys, CountReport(k) PROVE SlotsReported'
  <2> SUFFICES ASSUME NEW i \in Slots
               PROVE  IF slot'[i].key = NoKey THEN slot'[i].n = 0
                      ELSE slot'[i].n <= total'[slot'[i].key]
    BY DEF SlotsReported
  <2>1. /\ slot[i].key \in Keys \cup {NoKey} /\ slot[i].n \in Nat
        /\ \A h \in Keys : total[h] \in Nat
        /\ total' = [total EXCEPT ![k] = total[k] + 1] /\ total \in [Keys -> Nat]
    BY <1>3 DEF StatTypeOK, CountReport
  <2>2. CASE slot'[i] = slot[i] /\ slot[i].key = NoKey BY <2>2 DEF SlotsReported
  <2>4. CASE slot'[i] = slot[i] /\ slot[i].key # NoKey
    <3>1. slot[i].key \in Keys /\ slot[i].n <= total[slot[i].key]
      BY <2>1, <2>4 DEF SlotsReported
    <3>2. PICK h \in Keys : h = slot[i].key BY <3>1
    <3>3. total[h] <= total'[h] BY <2>1
    <3>4. total[h] \in Nat /\ total'[h] \in Nat BY <2>1
    <3> QED BY <2>1, <2>4, <3>1, <3>2, <3>3, <3>4
  <2>3. CASE slot'[i] # slot[i]
    <3>1. /\ slot'[i] = [key |-> k, n |-> slot[i].n + 1]
          /\ slot[i].key = k \/ (slot[i].key = NoKey /\ Entry(k) = {})
      BY <1>3, <2>3, CountedEffect DEF CountReport
    <3>2. total'[k] = total[k] + 1 BY <2>1
    <3>3. slot[i].n <= total[k]
      <4>1. CASE slot[i].key = k BY <4>1, StatAssumption DEF SlotsReported
      <4>2. CASE slot[i].key = NoKey BY <2>1, <4>2 DEF SlotsReported
      <4> QED BY <3>1, <4>1, <4>2
    <3>4. total[k] \in Nat BY <2>1
    <3>5. slot'[i].key = k /\ k # NoKey BY <3>1, StatAssumption
    <3> QED BY <2>1, <3>1, <3>2, <3>3, <3>4, <3>5
  <2> QED BY <2>2, <2>3, <2>4
<1>4. ASSUME NEW kind \in StatKinds, ResetKind(kind) PROVE SlotsReported'
  <2> SUFFICES ASSUME NEW i \in Slots
               PROVE  IF slot'[i].key = NoKey THEN slot'[i].n = 0
                      ELSE slot'[i].n <= total[slot'[i].key]
    BY <1>4 DEF SlotsReported, ResetKind
  <2>1. slot'[i].key = slot[i].key /\ (slot'[i].n = 0 \/ slot'[i].n = slot[i].n)
    BY <1>4 DEF ResetKind, StatTypeOK
  <2>2. CASE slot[i].key = NoKey BY <2>1, <2>2 DEF SlotsReported
  <2>3. CASE slot[i].key # NoKey
    <3>1. slot[i].key \in Keys /\ slot[i].n \in Nat BY <2>3 DEF StatTypeOK
    <3>2. total[slot[i].key] \in Nat BY <3>1 DEF StatTypeOK
    <3>3. slot[i].n <= total[slot[i].key] BY <2>3 DEF SlotsReported
    <3> QED BY <2>1, <2>3, <3>1, <3>2, <3>3
  <2> QED BY <2>2, <2>3
<1> QED BY Zenon, <1>1, <1>2, <1>3, <1>4 DEF StatNext, statVars, ResetAll, StatCrash, Lookup, Read

(* A report, and the reset of a kind, leave the entity of a slot alone.    *)
LEMMA KeysStay ==
    ASSUME StatTypeOK, NEW i \in Slots, slot[i].key # NoKey,
           \/ \E k \in Keys : CountReport(k)
           \/ \E kind \in StatKinds : ResetKind(kind)
    PROVE  slot'[i].key = slot[i].key
<1>1. ASSUME NEW k \in Keys, CountReport(k) PROVE slot'[i].key = slot[i].key
  <2>1. slot' = Counted(k) BY <1>1 DEF CountReport
  <2>2. \/ Counted(k)[i] = slot[i]
        \/ Counted(k)[i] = [key |-> k, n |-> slot[i].n + 1] /\ slot[i].key \in {k, NoKey}
    BY CountedEffect
  <2> QED BY <2>1, <2>2
<1>2. ASSUME NEW kind \in StatKinds, ResetKind(kind) PROVE slot'[i].key = slot[i].key
  BY <1>2 DEF ResetKind, StatTypeOK
<1> QED BY <1>1, <1>2

LEMMA PointersKept ==
    ASSUME StatTypeOK, PointersGood, StatNext
    PROVE  PointersGood'
<1>1. /\ \A r \in Readers : /\ reader[r].at # 0 => reader[r].at \in Slots
                            /\ reader[r].pc \in {"idle", "found", "shown"}
      /\ DOMAIN reader = Readers
      /\ NoKey \notin Keys
  BY StatAssumption DEF StatTypeOK, Slots
<1>2. CASE slot' = slot /\ reader' = reader BY <1>2 DEF PointersGood
<1>3. CASE \/ \E k \in Keys : CountReport(k)
           \/ \E kind \in StatKinds : ResetKind(kind)
  <2>1. reader' = reader BY <1>3 DEF CountReport, ResetKind
  <2> SUFFICES ASSUME NEW r \in Readers, reader[r].pc = "found", reader[r].clean,
                      reader[r].at # 0
               PROVE  slot'[reader[r].at].key = reader[r].key
    BY <2>1 DEF PointersGood
  <2>2. slot[reader[r].at].key = reader[r].key /\ reader[r].key \in Keys
    BY DEF PointersGood
  <2>3. PICK i \in Slots : i = reader[r].at BY <1>1
  <2>4. slot[i].key # NoKey BY <1>1, <2>2, <2>3
  <2>5. slot'[i].key = slot[i].key BY <1>3, <2>4, KeysStay
  <2> QED BY <2>2, <2>3, <2>5
<1>4. CASE ResetAll
  <2> SUFFICES ASSUME NEW r \in Readers
               PROVE  /\ reader'[r].pc # "idle" => reader'[r].key \in Keys
                      /\ ~(reader'[r].pc = "found" /\ reader'[r].clean)
    BY DEF PointersGood
  <2>1. reader'[r] = IF reader[r].pc = "found" THEN [reader[r] EXCEPT !.clean = FALSE]
                     ELSE reader[r]
    BY <1>4 DEF ResetAll
  <2>2. reader[r].pc # "idle" => reader[r].key \in Keys BY DEF PointersGood
  <2>3. CASE reader[r].pc = "found"
    <3>1. reader'[r].key = reader[r].key /\ reader'[r].clean = FALSE
      BY <2>1, <2>3 DEF StatTypeOK
    <3> QED BY <2>2, <2>3, <3>1
  <2>4. CASE reader[r].pc # "found" BY <2>1, <2>2, <2>4
  <2> QED BY <2>3, <2>4
<1>5. CASE StatCrash
  <2>1. \A r \in Readers : reader'[r].pc = "idle" BY <1>5 DEF StatCrash, Idle
  <2> QED BY <2>1 DEF PointersGood
<1>6. ASSUME NEW r \in Readers, NEW k \in Keys, Lookup(r, k) PROVE PointersGood'
  <2>1. PICK i \in 0..SlotCount :
          /\ IF Entry(k) = {} THEN i = 0 ELSE First(i, Entry(k))
          /\ reader' = [reader EXCEPT ![r] =
                          [pc |-> "found", key |-> k, at |-> i, clean |-> TRUE, shown |-> 0]]
    BY Zenon, <1>6 DEF Lookup
  <2>2. slot' = slot BY <1>6 DEF Lookup
  <2>3. reader'[r].key = k /\ reader'[r].at = i BY <1>1, <2>1
  <2>4. i # 0 => slot[i].key = k BY <2>1 DEF First, Entry
  <2>5. \A q \in Readers : q # r => reader'[q] = reader[q] BY <1>1, <2>1
  <2> QED BY <2>2, <2>3, <2>4, <2>5 DEF PointersGood
<1>7. ASSUME NEW r \in Readers, Read(r) PROVE PointersGood'
  <2>1. slot' = slot BY <1>7 DEF Read
  <2>2. reader'[r].key = reader[r].key /\ reader'[r].pc = "shown"
    BY <1>7 DEF Read, StatTypeOK
  <2>3. reader[r].key \in Keys BY <1>7 DEF Read, PointersGood
  <2>4. \A q \in Readers : q # r => reader'[q] = reader[q] BY <1>1, <1>7 DEF Read
  <2> QED BY <2>1, <2>2, <2>3, <2>4 DEF PointersGood
<1> QED BY <1>2, <1>3, <1>4, <1>5, <1>6, <1>7 DEF StatNext, statVars

LEMMA ShownKept ==
    ASSUME StatTypeOK, PointersGood, SlotsReported, ShownWasReported, StatNext
    PROVE  ShownWasReported'
<1> SUFFICES ASSUME NEW r \in Readers, reader'[r].pc = "shown", reader'[r].clean
             PROVE  reader'[r].shown <= total'[reader'[r].key]
  BY DEF ShownWasReported
<1>1. /\ DOMAIN reader = Readers
      /\ \A k \in Keys : total[k] \in Nat
      /\ reader[r].shown \in Nat
      /\ reader[r].at # 0 => reader[r].at \in Slots
      /\ NoKey \notin Keys
  BY StatAssumption DEF StatTypeOK, Slots
<1>2. \A k \in Keys : total'[k] \in Nat /\ total[k] <= total'[k]
  <2>1. CASE total' = total BY <1>1, <2>1
  <2>2. ASSUME NEW h \in Keys, CountReport(h)
        PROVE  \A k \in Keys : total'[k] \in Nat /\ total[k] <= total'[k]
    BY <2>2 DEF CountReport, StatTypeOK
  <2> QED BY Zenon, <2>1, <2>2 DEF StatNext, statVars, ResetKind, ResetAll, StatCrash, Lookup, Read
<1>3. CASE reader'[r] = reader[r]
  <2>1. reader[r].pc = "shown" /\ reader[r].clean BY <1>3
  <2>2. reader[r].key \in Keys BY <2>1 DEF PointersGood
  <2>3. reader[r].shown <= total[reader[r].key] BY <2>1 DEF ShownWasReported
  <2>4. PICK k \in Keys : k = reader[r].key BY <2>2
  <2> QED BY <1>1, <1>2, <1>3, <2>3, <2>4
<1>4. CASE Read(r)
  <2>1. reader[r].pc = "found" /\ total' = total BY <1>4 DEF Read
  <2>2. /\ reader'[r].key = reader[r].key
        /\ reader'[r].clean = reader[r].clean
        /\ reader'[r].shown = IF reader[r].at = 0 THEN 0 ELSE slot[reader[r].at].n
    BY Zenon, <1>4 DEF Read, StatTypeOK
  <2>3. reader[r].clean BY <2>2
  <2>4. PICK k \in Keys : k = reader[r].key BY <2>1 DEF PointersGood
  <2>5. CASE reader[r].at = 0 BY <1>1, <2>1, <2>2, <2>4, <2>5
  <2>6. CASE reader[r].at # 0
    <3>1. PICK i \in Slots : i = reader[r].at BY <1>1, <2>6
    <3>2. slot[i].key = k BY <2>1, <2>3, <2>4, <2>6, <3>1 DEF PointersGood
    <3>3. slot[i].n <= total[k] BY <1>1, <3>2 DEF SlotsReported
    <3> QED BY <2>1, <2>2, <2>4, <2>6, <3>1, <3>3
  <2> QED BY <2>5, <2>6
<1>5. reader'[r] = reader[r] \/ Read(r)
  <2>1. CASE UNCHANGED reader BY <2>1
  <2>2. CASE ResetAll
    <3>1. reader'[r] = IF reader[r].pc = "found" THEN [reader[r] EXCEPT !.clean = FALSE]
                       ELSE reader[r]
      BY <2>2 DEF ResetAll
    <3>2. CASE reader[r].pc = "found"
      <4>1. reader'[r].clean = FALSE BY <3>1, <3>2 DEF StatTypeOK
      <4> QED BY <4>1
    <3> QED BY <3>1, <3>2
  <2>3. ~StatCrash
    <3>1. StatCrash => reader'[r].pc = "idle" BY DEF StatCrash, Idle
    <3> QED BY <3>1
  <2>4. ASSUME NEW q \in Readers, NEW k \in Keys, Lookup(q, k)
        PROVE  reader'[r] = reader[r]
    <3>1. q # r
      <4>1. q = r => reader'[r].pc = "found" BY <1>1, <2>4 DEF Lookup
      <4> QED BY <4>1
    <3> QED BY <1>1, <2>4, <3>1 DEF Lookup
  <2>5. ASSUME NEW q \in Readers, Read(q) PROVE reader'[r] = reader[r] \/ Read(r)
    BY Zenon, <1>1, <2>5 DEF Read
  <2> QED BY <2>1, <2>2, <2>3, <2>4, <2>5 DEF StatNext, statVars, CountReport, ResetKind
<1> QED BY <1>3, <1>4, <1>5

LEMMA StatInvInit == StatInit => StatInv
<1> SUFFICES ASSUME StatInit PROVE StatInv OBVIOUS
<1>1. /\ \A i \in Slots : slot[i] = Unused
      /\ \A r \in Readers : reader[r].pc = "idle"
  BY DEF StatInit, Idle
<1>2. StatTypeOK
  <2>1. Unused \in [key : Keys \cup {NoKey}, n : Nat] BY DEF Unused
  <2>2. Idle \in [pc : {"idle", "found", "shown"}, key : Keys \cup {NoKey},
                  at : 0..SlotCount, clean : BOOLEAN, shown : Nat]
    BY StatAssumption DEF Idle
  <2>3. resets \in 0..MaxResets BY StatAssumption DEF StatInit
  <2> QED BY <2>1, <2>2, <2>3 DEF StatInit, StatTypeOK
<1>3. OneSlotPerEntity BY <1>1 DEF OneSlotPerEntity, Unused
<1>4. SlotsReported BY <1>1 DEF SlotsReported, Unused
<1>5. PointersGood /\ ShownWasReported BY <1>1 DEF PointersGood, ShownWasReported
<1> QED BY <1>2, <1>3, <1>4, <1>5 DEF StatInv

LEMMA StatInvKept == StatInv /\ StatNext => StatInv'
<1> SUFFICES ASSUME StatInv, StatNext PROVE StatInv' OBVIOUS
<1>1. StatTypeOK /\ OneSlotPerEntity /\ SlotsReported /\ PointersGood /\ ShownWasReported
  BY DEF StatInv
<1>2. StatTypeOK' BY <1>1, StatTypesKept
<1>3. OneSlotPerEntity' BY <1>1, OneSlotKept
<1>4. SlotsReported' BY <1>1, ReportedKept
<1>5. PointersGood' BY <1>1, PointersKept
<1>6. ShownWasReported' BY <1>1, ShownKept
<1> QED BY <1>2, <1>3, <1>4, <1>5, <1>6 DEF StatInv

(* Every step of QxReplay is a step of the table.                          *)
LEMMA StepsOfTable == [Next]_vars => StatNext
<1>1. ASSUME StatStep PROVE StatNext
  <2>1. ASSUME NEW k \in Keys \ {Recovery}, Report(k) PROVE StatNext
    BY <2>1 DEF Report, StatNext
  <2> QED BY <1>1, <2>1 DEF StatStep, StatNext
<1>2. ASSUME NEW s \in Sessions, List(s) \/ Finish(s) \/ Commit(s) \/ Abort(s) PROVE StatNext
  BY <1>2, ReplayAssumption DEF List, Finish, Commit, Abort, StatNext
<1>3. ASSUME NEW s \in Sessions, NEW c \in Checkpoints, Look(s, c) \/ Replay(s, c)
      PROVE  StatNext
  BY <1>3 DEF Look, Replay, StatNext
<1>4. ASSUME NEW c \in Checkpoints, NewCheckpoint(c) PROVE StatNext
  BY <1>4 DEF NewCheckpoint, StatNext
<1>5. ASSUME Crash PROVE StatNext BY <1>5 DEF Crash, StatNext
<1>6. ASSUME UNCHANGED vars PROVE StatNext BY <1>6 DEF vars, StatNext
<1> QED BY <1>1, <1>2, <1>3, <1>4, <1>5, <1>6 DEF Next

(* An entity never has two slots of the statistics table: its counters are *)
(* never split, whatever is reported and reset in between.                 *)
THEOREM SlotsStayDistinct == Spec => []OneSlotPerEntity
<1>1. Init => StatInv BY StatInvInit DEF Init
<1>2. StatInv /\ [Next]_vars => StatInv' BY StatInvKept, StepsOfTable
<1>3. StatInv => OneSlotPerEntity BY DEF StatInv
<1> QED BY <1>1, <1>2, <1>3, PTL DEF Spec

(* Without a reset of all statistics in between, the unlocked read shows a *)
(* count of the entity that was looked for, and no more than was reported. *)
THEOREM ShownStaysReported == Spec => []ShownWasReported
<1>1. Init => StatInv BY StatInvInit DEF Init
<1>2. StatInv /\ [Next]_vars => StatInv' BY StatInvKept, StepsOfTable
<1>3. StatInv => ShownWasReported BY DEF StatInv
<1> QED BY <1>1, <1>2, <1>3, PTL DEF Spec

-----------------------------------------------------------------------------
(* The replay transactions.                                                *)

Txn == [pc : {"none", "look", "done"},
        todo : SUBSET Checkpoints, plan : SUBSET Checkpoints,
        wrote : [Checkpoints -> Nat], listed : SUBSET Checkpoints,
        before : SUBSET Checkpoints, reported : Nat]

ReplayTypeOK ==
    /\ ckpt \subseteq Checkpoints
    /\ trace \in [Checkpoints -> [Sessions -> Nat]]
    /\ txn \in [Sessions -> Txn]
    /\ covered \subseteq Checkpoints
    /\ owed \in Nat
    /\ calls \in 0..MaxCalls

\* Nothing is left to do outside a call, nothing was done outside a transaction.
Shape(s) ==
    /\ txn[s].pc # "look" => txn[s].todo = {} /\ txn[s].plan = {}
    /\ txn[s].pc = "none" => txn[s].listed = {} /\ \A c \in Checkpoints : txn[s].wrote[c] = 0

\* What s wrote of c, and still plans to write.
Once(s, c) ==
    /\ trace[c][s] + txn[s].wrote[c] <= 1
    /\ c \in txn[s].plan => trace[c][s] = 0 /\ txn[s].wrote[c] = 0

\* A checkpoint with a trace from before is neither planned nor written.
Spared(s, c) ==
    c \in txn[s].before => Traced(c) /\ c \notin txn[s].plan /\ txn[s].wrote[c] = 0

\* A listed checkpoint is on its way to a committed trace, or has one.
Pursued(s, c) ==
    c \in txn[s].listed =>
        c \in txn[s].todo \/ c \in txn[s].plan \/ txn[s].wrote[c] > 0 \/ Traced(c)

SessionOK(s) ==
    Shape(s) /\ \A c \in Checkpoints : Once(s, c) /\ Spared(s, c) /\ Pursued(s, c)

RInv == ReplayTypeOK /\ (\A s \in Sessions : SessionOK(s)) /\ ListedIsReplayed

LEMMA NoTxnType == NoTxn \in Txn
BY DEF NoTxn, Txn

LEMMA SessionTypes ==
    ASSUME ReplayTypeOK, NEW s \in Sessions, NEW t \in Txn, txn' = [txn EXCEPT ![s] = t],
           UNCHANGED <<ckpt, covered, owed>>,
           trace' \in [Checkpoints -> [Sessions -> Nat]], calls' \in 0..MaxCalls
    PROVE  ReplayTypeOK'
BY DEF ReplayTypeOK

\* The steps of one backend within its transaction.
Working(s) ==
    \/ List(s) \/ Finish(s)
    \/ \E c \in Checkpoints : Look(s, c) \/ Replay(s, c)

LEMMA WorkingTypes ==
    ASSUME ReplayTypeOK, NEW s \in Sessions, Working(s)
    PROVE  /\ ReplayTypeOK'
           /\ trace' = trace /\ covered' = covered
           /\ \A r \in Sessions : r # s => txn'[r] = txn[r]
<1>1. /\ txn[s] \in Txn /\ trace \in [Checkpoints -> [Sessions -> Nat]]
      /\ ckpt \subseteq Checkpoints /\ calls \in 0..MaxCalls /\ DOMAIN txn = Sessions
  BY DEF ReplayTypeOK
<1>2. /\ trace' = trace /\ covered' = covered /\ UNCHANGED <<ckpt, owed>>
      /\ \E t : txn' = [txn EXCEPT ![s] = t]
  BY Zenon DEF Working, List, Finish, Look, Replay
<1>3. \A r \in Sessions : r # s => txn'[r] = txn[r] BY <1>1, <1>2
<1>4. CASE List(s)
  <2>1. PICK B \in SUBSET Checkpoints :
          B = IF txn[s].pc = "none" THEN {c \in Checkpoints : Traced(c)} ELSE txn[s].before
    BY Zenon, <1>1 DEF Txn
  <2>2. txn' = [txn EXCEPT ![s] =
                 [txn[s] EXCEPT
                    !.pc = "look", !.todo = ckpt, !.listed = txn[s].listed \cup ckpt,
                    !.before = B]]
    BY <1>4, <2>1 DEF List
  <2>3. [txn[s] EXCEPT !.pc = "look", !.todo = ckpt, !.listed = txn[s].listed \cup ckpt,
                       !.before = B] \in Txn
    BY Zenon, <1>1 DEF Txn
  <2>4. calls' \in 0..MaxCalls BY <1>1, <1>4, ReplayAssumption DEF List
  <2> QED BY Zenon, <1>1, <1>2, <1>3, <2>2, <2>3, <2>4, SessionTypes
<1>5. CASE Finish(s)
  <2>1. PICK n \in Nat : n = txn[s].reported + IF HasRoom(Recovery) THEN 1 ELSE 0
    <3>1. txn[s].reported \in Nat BY <1>1 DEF Txn
    <3>2. CASE HasRoom(Recovery) BY <3>1, <3>2
    <3>3. CASE ~HasRoom(Recovery) BY <3>1, <3>3
    <3> QED BY <3>2, <3>3
  <2>2. txn' = [txn EXCEPT ![s] = [txn[s] EXCEPT !.pc = "done", !.reported = n]]
    BY <1>5, <2>1 DEF Finish
  <2>3. [txn[s] EXCEPT !.pc = "done", !.reported = n] \in Txn BY Zenon, <1>1 DEF Txn
  <2>4. calls' \in 0..MaxCalls BY <1>1, <1>5 DEF Finish
  <2> QED BY Zenon, <1>1, <1>2, <1>3, <2>2, <2>3, <2>4, SessionTypes
<1>6. ASSUME NEW c \in Checkpoints, Look(s, c) PROVE ReplayTypeOK'
  <2>1. PICK P \in SUBSET Checkpoints :
          P = IF HasSemanticReplay(s, c) THEN txn[s].plan ELSE txn[s].plan \cup {c}
    BY Zenon, <1>1 DEF Txn
  <2>2. txn' = [txn EXCEPT ![s] =
                 [txn[s] EXCEPT !.todo = txn[s].todo \ {c}, !.plan = P]]
    BY <1>6, <2>1 DEF Look
  <2>3. [txn[s] EXCEPT !.todo = txn[s].todo \ {c}, !.plan = P] \in Txn BY Zenon, <1>1 DEF Txn
  <2>4. calls' \in 0..MaxCalls BY <1>1, <1>6 DEF Look
  <2> QED BY Zenon, <1>1, <1>2, <2>2, <2>3, <2>4, SessionTypes
<1>7. ASSUME NEW c \in Checkpoints, Replay(s, c) PROVE ReplayTypeOK'
  <2>1. PICK W \in [Checkpoints -> Nat] : W = [txn[s].wrote EXCEPT ![c] = @ + 1]
    <3>1. txn[s].wrote \in [Checkpoints -> Nat] BY <1>1 DEF Txn
    <3>2. [txn[s].wrote EXCEPT ![c] = @ + 1] \in [Checkpoints -> Nat] BY <3>1
    <3> QED BY Zenon, <3>2
  <2>2. txn' = [txn EXCEPT ![s] =
                 [txn[s] EXCEPT !.plan = txn[s].plan \ {c}, !.wrote = W]]
    BY <1>7, <2>1 DEF Replay
  <2>3. [txn[s] EXCEPT !.plan = txn[s].plan \ {c}, !.wrote = W] \in Txn BY Zenon, <1>1 DEF Txn
  <2>4. calls' \in 0..MaxCalls BY <1>1, <1>7 DEF Replay
  <2> QED BY Zenon, <1>1, <1>2, <2>2, <2>3, <2>4, SessionTypes
<1> QED BY <1>2, <1>3, <1>4, <1>5, <1>6, <1>7 DEF Working

(* A session keeps its invariant while others work and commit.             *)
LEMMA Bystander ==
    ASSUME NEW s \in Sessions, SessionOK(s),
           /\ txn'[s].pc = txn[s].pc /\ txn'[s].todo = txn[s].todo
           /\ txn'[s].plan = txn[s].plan /\ txn'[s].wrote = txn[s].wrote
           /\ txn'[s].listed = txn[s].listed /\ txn'[s].before = txn[s].before,
           \A c \in Checkpoints : trace'[c][s] = trace[c][s],
           \A c \in Checkpoints : Traced(c) => Traced(c)'
    PROVE  SessionOK(s)'
<1>1. Shape(s)' BY DEF SessionOK, Shape
<1>2. ASSUME NEW c \in Checkpoints PROVE (Once(s, c) /\ Spared(s, c) /\ Pursued(s, c))'
  <2>1. Once(s, c) /\ Spared(s, c) /\ Pursued(s, c) BY DEF SessionOK
  <2>2. Once(s, c)' BY <2>1 DEF Once
  <2>3. Spared(s, c)' BY <2>1 DEF Spared
  <2>4. Pursued(s, c)' BY <2>1 DEF Pursued
  <2> QED BY <2>2, <2>3, <2>4
<1> QED BY <1>1, <1>2 DEF SessionOK

(* A session without a transaction has only its committed traces to keep.  *)
LEMMA Resting ==
    ASSUME NEW s \in Sessions, txn'[s] = NoTxn,
           \A c \in Checkpoints : trace'[c][s] \in Nat /\ trace'[c][s] <= 1
    PROVE  SessionOK(s)'
<1>1. /\ txn'[s].pc = "none" /\ txn'[s].todo = {} /\ txn'[s].plan = {}
      /\ txn'[s].listed = {} /\ txn'[s].before = {}
      /\ \A c \in Checkpoints : txn'[s].wrote[c] = 0
  BY DEF NoTxn
<1>2. Shape(s)' BY <1>1 DEF Shape
<1>3. ASSUME NEW c \in Checkpoints PROVE (Once(s, c) /\ Spared(s, c) /\ Pursued(s, c))'
  <2>1. Once(s, c)' BY <1>1 DEF Once
  <2>2. Spared(s, c)' BY <1>1 DEF Spared
  <2>3. Pursued(s, c)' BY <1>1 DEF Pursued
  <2> QED BY <2>1, <2>2, <2>3
<1> QED BY <1>2, <1>3 DEF SessionOK

LEMMA ListOK ==
    ASSUME ReplayTypeOK, NEW s \in Sessions, SessionOK(s), List(s)
    PROVE  SessionOK(s)'
<1>1. txn[s] \in Txn /\ DOMAIN txn = Sessions BY DEF ReplayTypeOK
<1>2. Shape(s) /\ txn[s].pc # "look" BY DEF List, SessionOK
<1>3. /\ txn'[s].pc = "look" /\ txn'[s].todo = ckpt /\ txn'[s].plan = txn[s].plan
      /\ txn'[s].wrote = txn[s].wrote /\ txn'[s].listed = txn[s].listed \cup ckpt
      /\ txn'[s].before = IF txn[s].pc = "none" THEN {c \in Checkpoints : Traced(c)}
                          ELSE txn[s].before
  BY <1>1 DEF List, Txn
<1>4. trace' = trace BY DEF List
<1>5. txn[s].plan = {} /\ txn[s].todo = {} BY <1>2 DEF Shape
<1>6. Shape(s)' BY <1>3 DEF Shape
<1>7. ASSUME NEW c \in Checkpoints PROVE (Once(s, c) /\ Spared(s, c) /\ Pursued(s, c))'
  <2>1. Once(s, c) /\ Spared(s, c) /\ Pursued(s, c) BY DEF SessionOK
  <2>2. Once(s, c)' BY <1>3, <1>4, <1>5, <2>1 DEF Once
  <2>3. Traced(c)' <=> Traced(c) BY <1>4 DEF Traced
  <2>4. Spared(s, c)'
    <3>1. CASE txn[s].pc = "none"
      <4>1. txn[s].wrote[c] = 0 BY <1>2, <3>1 DEF Shape
      <4>2. txn'[s].before = {e \in Checkpoints : Traced(e)} BY <1>3, <3>1
      <4>3. c \in txn'[s].before => Traced(c) BY <4>2
      <4> QED BY <1>3, <1>5, <2>3, <4>1, <4>3 DEF Spared
    <3>2. CASE txn[s].pc # "none"
      <4>1. txn'[s].before = txn[s].before BY <1>3, <3>2
      <4> QED BY <1>3, <2>1, <2>3, <4>1 DEF Spared
    <3> QED BY <3>1, <3>2
  <2>5. Pursued(s, c)' BY <1>3, <1>5, <2>1, <2>3 DEF Pursued
  <2> QED BY <2>2, <2>4, <2>5
<1> QED BY <1>6, <1>7 DEF SessionOK

LEMMA LookOK ==
    ASSUME ReplayTypeOK, NEW s \in Sessions, SessionOK(s), NEW e \in Checkpoints, Look(s, e)
    PROVE  SessionOK(s)'
<1>1. /\ txn[s] \in Txn /\ DOMAIN txn = Sessions
      /\ \A c \in Checkpoints : trace[c][s] \in Nat
  BY DEF ReplayTypeOK
<1>2. /\ txn'[s].pc = txn[s].pc /\ txn[s].pc = "look" /\ txn'[s].todo = txn[s].todo \ {e}
      /\ txn'[s].wrote = txn[s].wrote /\ txn'[s].listed = txn[s].listed
      /\ txn'[s].before = txn[s].before
      /\ txn'[s].plan = IF HasSemanticReplay(s, e) THEN txn[s].plan
                        ELSE txn[s].plan \cup {e}
  BY <1>1 DEF Look, Txn
<1>3. trace' = trace BY DEF Look
<1>4. Shape(s)' BY <1>2 DEF Shape
<1>5. ASSUME NEW c \in Checkpoints PROVE (Once(s, c) /\ Spared(s, c) /\ Pursued(s, c))'
  <2>1. Once(s, c) /\ Spared(s, c) /\ Pursued(s, c) BY DEF SessionOK
  <2>2. Traced(c)' <=> Traced(c) BY <1>3 DEF Traced
  <2>3. txn[s].wrote[c] \in Nat /\ trace[c][s] \in Nat BY <1>1 DEF Txn
  <2>4. CASE c = e /\ ~HasSemanticReplay(s, e)
    <3>1. ~Traced(c) /\ txn[s].wrote[c] = 0 BY <2>3, <2>4 DEF HasSemanticReplay
    <3>2. trace[c][s] = 0 BY <2>3, <3>1 DEF Traced
    <3>3. c \in txn'[s].plan BY <1>2, <2>4
    <3>4. Once(s, c)' BY <1>2, <1>3, <3>1, <3>2 DEF Once
    <3>5. Spared(s, c)' BY <1>2, <2>1, <3>1 DEF Spared
    <3>6. Pursued(s, c)' BY <3>3 DEF Pursued
    <3> QED BY <3>4, <3>5, <3>6
  <2>5. CASE c # e \/ HasSemanticReplay(s, e)
    <3>1. c \in txn'[s].plan <=> c \in txn[s].plan BY <1>2, <2>5
    <3>2. Once(s, c)' BY <1>2, <1>3, <2>1, <3>1 DEF Once
    <3>3. Spared(s, c)' BY <1>2, <2>1, <2>2, <3>1 DEF Spared
    <3>4. c \in txn[s].todo => c \in txn'[s].todo \/ txn[s].wrote[c] > 0 \/ Traced(c)
      BY <1>2, <2>5 DEF HasSemanticReplay
    <3>5. Pursued(s, c)' BY <1>2, <2>1, <2>2, <3>1, <3>4 DEF Pursued
    <3> QED BY <3>2, <3>3, <3>5
  <2> QED BY <2>4, <2>5
<1> QED BY <1>4, <1>5 DEF SessionOK

LEMMA ReplayOK ==
    ASSUME ReplayTypeOK, NEW s \in Sessions, SessionOK(s), NEW e \in Checkpoints, Replay(s, e)
    PROVE  SessionOK(s)'
<1>1. /\ txn[s] \in Txn /\ DOMAIN txn = Sessions
      /\ \A c \in Checkpoints : trace[c][s] \in Nat
  BY DEF ReplayTypeOK
<1>2. /\ txn[s].wrote \in [Checkpoints -> Nat] /\ e \in txn[s].plan /\ txn[s].pc = "look"
  BY <1>1 DEF Txn, Replay
<1>3. /\ txn'[s].pc = txn[s].pc /\ txn'[s].todo = txn[s].todo
      /\ txn'[s].wrote = [txn[s].wrote EXCEPT ![e] = txn[s].wrote[e] + 1]
      /\ txn'[s].listed = txn[s].listed /\ txn'[s].before = txn[s].before
      /\ txn'[s].plan = txn[s].plan \ {e}
  BY <1>1 DEF Replay, Txn
<1>4. trace' = trace BY DEF Replay
<1>5. Shape(s)' BY <1>2, <1>3 DEF Shape
<1>6. ASSUME NEW c \in Checkpoints PROVE (Once(s, c) /\ Spared(s, c) /\ Pursued(s, c))'
  <2>1. Once(s, c) /\ Spared(s, c) /\ Pursued(s, c) BY DEF SessionOK
  <2>2. Traced(c)' <=> Traced(c) BY <1>4 DEF Traced
  <2>3. CASE c = e
    <3>1. trace[c][s] = 0 /\ txn[s].wrote[c] = 0 BY <1>2, <2>1, <2>3 DEF Once
    <3>2. txn'[s].wrote[c] = 1 BY <1>2, <1>3, <2>3, <3>1
    <3>3. c \notin txn'[s].plan BY <1>3, <2>3
    <3>4. Once(s, c)' BY <1>4, <3>1, <3>2, <3>3 DEF Once
    <3>5. c \notin txn[s].before BY <1>2, <2>1, <2>3 DEF Spared
    <3>6. Spared(s, c)' BY <1>3, <3>5 DEF Spared
    <3>7. Pursued(s, c)' BY <3>2 DEF Pursued
    <3> QED BY <3>4, <3>6, <3>7
  <2>4. CASE c # e
    <3>1. txn'[s].wrote[c] = txn[s].wrote[c] BY <1>2, <1>3, <2>4
    <3>2. c \in txn'[s].plan <=> c \in txn[s].plan BY <1>3, <2>4
    <3>3. Once(s, c)' BY <1>4, <2>1, <3>1, <3>2 DEF Once
    <3>4. Spared(s, c)' BY <1>3, <2>1, <2>2, <3>1, <3>2 DEF Spared
    <3>5. Pursued(s, c)' BY <1>3, <2>1, <2>2, <3>1, <3>2 DEF Pursued
    <3> QED BY <3>3, <3>4, <3>5
  <2> QED BY <2>3, <2>4
<1> QED BY <1>5, <1>6 DEF SessionOK

LEMMA FinishOK ==
    ASSUME ReplayTypeOK, NEW s \in Sessions, SessionOK(s), Finish(s)
    PROVE  SessionOK(s)'
<1>1. txn[s] \in Txn /\ DOMAIN txn = Sessions BY DEF ReplayTypeOK
<1>2. /\ txn'[s].pc = "done" /\ txn'[s].todo = {} /\ txn'[s].plan = {}
      /\ txn[s].todo = {} /\ txn[s].plan = {}
      /\ txn'[s].wrote = txn[s].wrote /\ txn'[s].listed = txn[s].listed
      /\ txn'[s].before = txn[s].before
  BY <1>1 DEF Finish, Txn
<1>3. trace' = trace BY DEF Finish
<1>4. Shape(s)' BY <1>2 DEF Shape
<1>5. ASSUME NEW c \in Checkpoints PROVE (Once(s, c) /\ Spared(s, c) /\ Pursued(s, c))'
  <2>1. Once(s, c) /\ Spared(s, c) /\ Pursued(s, c) BY DEF SessionOK
  <2>2. Traced(c)' <=> Traced(c) BY <1>3 DEF Traced
  <2>3. Once(s, c)' BY <1>2, <1>3, <2>1 DEF Once
  <2>4. Spared(s, c)' BY <1>2, <2>1, <2>2 DEF Spared
  <2>5. Pursued(s, c)' BY <1>2, <2>1, <2>2 DEF Pursued
  <2> QED BY <2>3, <2>4, <2>5
<1> QED BY <1>4, <1>5 DEF SessionOK

(* What a session does inside its transaction keeps the invariant.         *)
LEMMA WorkingKeeps ==
    ASSUME RInv, NEW s \in Sessions, Working(s)
    PROVE  RInv'
<1>1. ReplayTypeOK /\ (\A r \in Sessions : SessionOK(r)) /\ ListedIsReplayed BY DEF RInv
<1>2. /\ ReplayTypeOK'
      /\ trace' = trace /\ covered' = covered
      /\ \A r \in Sessions : r # s => txn'[r] = txn[r]
  BY <1>1, WorkingTypes
<1>3. \A c \in Checkpoints : Traced(c) <=> Traced(c)' BY <1>2 DEF Traced
<1>4. SessionOK(s)' BY <1>1, ListOK, LookOK, ReplayOK, FinishOK DEF Working
<1>5. ASSUME NEW r \in Sessions, r # s PROVE SessionOK(r)'
  BY <1>1, <1>2, <1>3, <1>5, Bystander
<1>6. ListedIsReplayed'
  BY <1>1, <1>2, <1>3 DEF ListedIsReplayed, ReplayTypeOK
<1> QED BY <1>2, <1>4, <1>5, <1>6 DEF RInv

(* The traces of a transaction become visible together at its commit.      *)
LEMMA CommitKeeps ==
    ASSUME RInv, NEW s \in Sessions, Commit(s)
    PROVE  RInv'
<1>1. ReplayTypeOK /\ (\A r \in Sessions : SessionOK(r)) /\ ListedIsReplayed BY DEF RInv
<1>2. /\ txn[s] \in Txn /\ DOMAIN txn = Sessions /\ txn \in [Sessions -> Txn]
      /\ trace \in [Checkpoints -> [Sessions -> Nat]]
  BY <1>1 DEF ReplayTypeOK
<1>3. txn[s].wrote \in [Checkpoints -> Nat] /\ txn[s].reported \in Nat
      /\ txn[s].listed \subseteq Checkpoints
  BY <1>2 DEF Txn
<1>4. trace' = [c \in Checkpoints |->
                  [trace[c] EXCEPT ![s] = trace[c][s] + txn[s].wrote[c]]]
  BY DEF Commit
<1>5. txn' = [txn EXCEPT ![s] = NoTxn] /\ covered' = covered \cup txn[s].listed
      /\ owed' = owed + txn[s].reported /\ UNCHANGED <<ckpt, calls>>
  BY DEF Commit
<1>6. ASSUME NEW c \in Checkpoints
      PROVE  /\ trace'[c][s] = trace[c][s] + txn[s].wrote[c]
             /\ \A r \in Sessions : r # s => trace'[c][r] = trace[c][r]
             /\ \A r \in Sessions : trace'[c][r] \in Nat
             /\ trace[c][s] \in Nat /\ txn[s].wrote[c] \in Nat
  <2>1. trace'[c] = [trace[c] EXCEPT ![s] = trace[c][s] + txn[s].wrote[c]] BY <1>4
  <2>2. trace[c] \in [Sessions -> Nat] /\ txn[s].wrote[c] \in Nat BY <1>2, <1>3
  <2> QED BY <2>1, <2>2
<1>7. ReplayTypeOK'
  <2>1. trace' \in [Checkpoints -> [Sessions -> Nat]] BY <1>2, <1>3, <1>4
  <2>2. txn' \in [Sessions -> Txn] BY <1>2, <1>5, NoTxnType
  <2>3. owed' \in Nat BY <1>1, <1>3, <1>5 DEF ReplayTypeOK
  <2>4. covered' \subseteq Checkpoints BY <1>1, <1>3, <1>5 DEF ReplayTypeOK
  <2> QED BY <1>1, <1>5, <2>1, <2>2, <2>3, <2>4 DEF ReplayTypeOK
<1>8. ASSUME NEW c \in Checkpoints PROVE Traced(c) => Traced(c)'
  <2> SUFFICES ASSUME NEW r \in Sessions, trace[c][r] > 0 PROVE trace'[c][r] > 0
    BY DEF Traced
  <2>1. CASE r = s BY <1>6, <2>1
  <2>2. CASE r # s BY <1>6, <2>2
  <2> QED BY <2>1, <2>2
<1>9. SessionOK(s)'
  <2>1. txn'[s] = NoTxn BY <1>2, <1>5
  <2>2. ASSUME NEW c \in Checkpoints PROVE trace'[c][s] \in Nat /\ trace'[c][s] <= 1
    <3>1. trace[c][s] + txn[s].wrote[c] <= 1 BY <1>1 DEF SessionOK, Once
    <3> QED BY <1>6, <3>1
  <2> QED BY <2>1, <2>2, Resting
<1>10. ASSUME NEW r \in Sessions, r # s PROVE SessionOK(r)'
  <2>1. txn'[r] = txn[r] BY <1>2, <1>5, <1>10
  <2>2. \A c \in Checkpoints : trace'[c][r] = trace[c][r] BY <1>6, <1>10
  <2> QED BY <1>1, <1>8, <2>1, <2>2, Bystander
<1>11. ListedIsReplayed'
  <2> SUFFICES ASSUME NEW c \in covered' PROVE Traced(c)' BY DEF ListedIsReplayed
  <2>1. c \in Checkpoints BY <1>7 DEF ReplayTypeOK
  <2>2. CASE c \in covered BY <1>1, <1>8, <2>1, <2>2 DEF ListedIsReplayed
  <2>3. CASE c \in txn[s].listed
    <3>1. Shape(s) /\ Pursued(s, c) BY <1>1, <2>1 DEF SessionOK
    <3>2. txn[s].todo = {} /\ txn[s].plan = {} BY <3>1 DEF Shape, Commit
    <3>3. txn[s].wrote[c] > 0 \/ Traced(c) BY <2>3, <3>1, <3>2 DEF Pursued
    <3>4. CASE txn[s].wrote[c] > 0
      <4>1. trace'[c][s] > 0 BY <1>6, <2>1, <3>4
      <4> QED BY <4>1 DEF Traced
    <3> QED BY <1>8, <2>1, <3>3, <3>4
  <2> QED BY <1>5, <2>2, <2>3
<1> QED BY <1>7, <1>9, <1>10, <1>11 DEF RInv

(* Steps that end transactions, or that only touch what is counted.        *)
LEMMA QuietKeeps ==
    ASSUME RInv, trace' = trace, covered' = covered, ReplayTypeOK',
           \A r \in Sessions :
              \/ txn'[r] = NoTxn
              \/ /\ txn'[r].pc = txn[r].pc /\ txn'[r].todo = txn[r].todo
                 /\ txn'[r].plan = txn[r].plan /\ txn'[r].wrote = txn[r].wrote
                 /\ txn'[r].listed = txn[r].listed /\ txn'[r].before = txn[r].before
    PROVE  RInv'
<1>1. ReplayTypeOK /\ (\A r \in Sessions : SessionOK(r)) /\ ListedIsReplayed BY DEF RInv
<1>2. \A c \in Checkpoints : Traced(c) <=> Traced(c)' BY DEF Traced
<1>3. ASSUME NEW r \in Sessions PROVE SessionOK(r)'
  <2>1. CASE txn'[r] = NoTxn
    <3>1. ASSUME NEW c \in Checkpoints PROVE trace'[c][r] \in Nat /\ trace'[c][r] <= 1
      <4>1. trace[c][r] \in Nat /\ txn[r].wrote[c] \in Nat BY <1>1 DEF ReplayTypeOK, Txn
      <4>2. trace[c][r] + txn[r].wrote[c] <= 1 BY <1>1 DEF SessionOK, Once
      <4> QED BY <4>1, <4>2
    <3> QED BY <2>1, <3>1, Resting
  <2>2. CASE txn'[r] # NoTxn BY <1>1, <1>2, <2>2, Bystander
  <2> QED BY <2>1, <2>2
<1>4. ListedIsReplayed' BY <1>1, <1>2 DEF ListedIsReplayed, ReplayTypeOK
<1> QED BY <1>3, <1>4 DEF RInv

LEMMA ForgivenKeeps ==
    ASSUME RInv, Forgiven
    PROVE  RInv'
<1>1. ReplayTypeOK BY DEF RInv
<1>2. /\ txn' = [s \in Sessions |-> [txn[s] EXCEPT !.reported = 0]]
      /\ owed' = 0 /\ UNCHANGED <<ckpt, trace, covered, calls>>
  BY DEF Forgiven
<1>3. ASSUME NEW r \in Sessions
      PROVE  /\ txn'[r] \in Txn
             /\ txn'[r].pc = txn[r].pc /\ txn'[r].todo = txn[r].todo
             /\ txn'[r].plan = txn[r].plan /\ txn'[r].wrote = txn[r].wrote
             /\ txn'[r].listed = txn[r].listed /\ txn'[r].before = txn[r].before
  <2>1. txn[r] \in Txn BY <1>1 DEF ReplayTypeOK
  <2> QED BY <1>2, <2>1 DEF Txn
<1>4. txn' \in [Sessions -> Txn] BY <1>2, <1>3
<1>5. ReplayTypeOK' BY <1>1, <1>2, <1>4 DEF ReplayTypeOK
<1> QED BY <1>2, <1>3, <1>5, QuietKeeps

LEMMA RInvInit == Init => RInv
<1> SUFFICES ASSUME Init PROVE RInv OBVIOUS
<1>1. /\ \A s \in Sessions : txn[s] = NoTxn
      /\ \A c \in Checkpoints : \A s \in Sessions : trace[c][s] = 0
  BY DEF Init
<1>2. ReplayTypeOK BY NoTxnType, ReplayAssumption DEF Init, ReplayTypeOK
<1>3. ASSUME NEW s \in Sessions PROVE SessionOK(s)
  <2>1. /\ txn[s].pc = "none" /\ txn[s].todo = {} /\ txn[s].plan = {}
        /\ txn[s].listed = {} /\ txn[s].before = {}
        /\ \A c \in Checkpoints : txn[s].wrote[c] = 0
    BY <1>1 DEF NoTxn
  <2>2. Shape(s) BY <2>1 DEF Shape
  <2>3. ASSUME NEW c \in Checkpoints PROVE Once(s, c) /\ Spared(s, c) /\ Pursued(s, c)
    BY <1>1, <2>1 DEF Once, Spared, Pursued
  <2> QED BY <2>2, <2>3 DEF SessionOK
<1>4. ListedIsReplayed BY DEF Init, ListedIsReplayed
<1> QED BY <1>2, <1>3, <1>4 DEF RInv

LEMMA RInvKept == RInv /\ [Next]_vars => RInv'
<1> SUFFICES ASSUME RInv, [Next]_vars PROVE RInv' OBVIOUS
<1>1. ReplayTypeOK BY DEF RInv
<1>2. CASE UNCHANGED replayVars
  <2>1. ReplayTypeOK' BY <1>1, <1>2 DEF ReplayTypeOK, replayVars
  <2> QED BY <1>2, <2>1, QuietKeeps DEF replayVars
<1>3. ASSUME NEW s \in Sessions, List(s) \/ Finish(s) PROVE RInv'
  BY <1>3, WorkingKeeps DEF Working
<1>4. ASSUME NEW s \in Sessions, NEW c \in Checkpoints, Look(s, c) \/ Replay(s, c) PROVE RInv'
  BY <1>4, WorkingKeeps DEF Working
<1>5. ASSUME NEW s \in Sessions, Commit(s) PROVE RInv' BY <1>5, CommitKeeps
<1>6. ASSUME NEW s \in Sessions, Abort(s) PROVE RInv'
  <2>1. txn' = [txn EXCEPT ![s] = NoTxn] /\ UNCHANGED <<ckpt, trace, covered, owed, calls>>
    BY <1>6 DEF Abort
  <2>2. ReplayTypeOK' BY <1>1, <2>1, NoTxnType DEF ReplayTypeOK
  <2>3. \A r \in Sessions : txn'[r] = NoTxn \/ txn'[r] = txn[r]
    BY <1>1, <2>1 DEF ReplayTypeOK
  <2> QED BY <2>1, <2>2, <2>3, QuietKeeps
<1>7. ASSUME NEW c \in Checkpoints, NewCheckpoint(c) PROVE RInv'
  <2>1. ckpt' = ckpt \cup {c} /\ UNCHANGED <<trace, txn, covered, owed, calls>>
    BY <1>7 DEF NewCheckpoint
  <2>2. ReplayTypeOK' BY <1>1, <2>1 DEF ReplayTypeOK
  <2> QED BY <2>1, <2>2, QuietKeeps
<1>8. ASSUME Crash PROVE RInv'
  <2>1. /\ txn' = [s \in Sessions |-> NoTxn] /\ owed' = 0
        /\ UNCHANGED <<ckpt, trace, covered, calls>>
    BY <1>8 DEF Crash
  <2>2. ReplayTypeOK' BY <1>1, <2>1, NoTxnType DEF ReplayTypeOK
  <2>3. \A r \in Sessions : txn'[r] = NoTxn BY <2>1
  <2> QED BY <2>1, <2>2, <2>3, QuietKeeps
<1>9. ASSUME StatStep PROVE RInv'
  BY <1>2, <1>9, ForgivenKeeps DEF StatStep
<1>10. CASE UNCHANGED vars BY <1>2, <1>10 DEF vars
<1> QED BY <1>3, <1>4, <1>5, <1>6, <1>7, <1>8, <1>9, <1>10 DEF Next

-----------------------------------------------------------------------------
(* The table and the replay transactions keep their types.                 *)
THEOREM ReplayTypes == Spec => []TypeOK
<1>1. Init => StatInv /\ RInv BY StatInvInit, RInvInit DEF Init
<1>2. StatInv /\ RInv /\ [Next]_vars => (StatInv /\ RInv)'
  BY StatInvKept, StepsOfTable, RInvKept
<1>3. StatInv /\ RInv => TypeOK
  BY DEF StatInv, RInv, ReplayTypeOK, TypeOK, Txn
<1> QED BY <1>1, <1>2, <1>3, PTL DEF Spec

(* No backend ever replays a checkpoint a second time, in whatever         *)
(* transactions and calls, with whatever errors and crashes in between.    *)
THEOREM ReplayedOnce == Spec => []OncePerBackend
<1>1. RInv => OncePerBackend
  <2> SUFFICES ASSUME RInv, NEW c \in Checkpoints, NEW s \in Sessions
               PROVE  trace[c][s] <= 1
    BY DEF OncePerBackend
  <2>1. trace[c][s] \in Nat /\ txn[s].wrote[c] \in Nat BY DEF RInv, ReplayTypeOK, Txn
  <2>2. trace[c][s] + txn[s].wrote[c] <= 1 BY DEF RInv, SessionOK, Once
  <2> QED BY <2>1, <2>2
<1> QED BY <1>1, RInvInit, RInvKept, PTL DEF Spec

(* A transaction never replays a checkpoint that had a committed replay    *)
(* trace when the transaction began.                                       *)
THEOREM OverlapNeeded == Spec => []OnlyOverlapping
<1>1. RInv => OnlyOverlapping
  <2> SUFFICES ASSUME RInv, NEW s \in Sessions, NEW c \in txn[s].before
               PROVE  txn[s].wrote[c] = 0
    BY DEF OnlyOverlapping
  <2>1. c \in Checkpoints BY DEF RInv, ReplayTypeOK, Txn
  <2> QED BY <2>1 DEF RInv, SessionOK, Spared
<1> QED BY <1>1, RInvInit, RInvKept, PTL DEF Spec

(* Once a replay has committed, every checkpoint it listed has a committed *)
(* replay trace.                                                           *)
THEOREM ListedStaysReplayed == Spec => []ListedIsReplayed
<1>1. RInv => ListedIsReplayed BY DEF RInv
<1> QED BY <1>1, RInvInit, RInvKept, PTL DEF Spec

-----------------------------------------------------------------------------
(* Committed calls are counted.  The counter of recovery covers the        *)
(* committed calls and the reported calls of every open transaction        *)
(* together.  Instead of a sum over the backends, each of these calls holds *)
(* one of the numbers up to n, no two the same, and the counter is at      *)
(* least n.                                                                *)
Numbered(F, G, n) ==
    /\ F \in [Sessions -> SUBSET (1..n)]
    /\ G \in SUBSET (1..n)
    /\ Cardinality(G) = owed
    /\ \A s \in Sessions : Cardinality(F[s]) = txn[s].reported /\ F[s] \cap G = {}
    /\ \A s, r \in Sessions : s # r => F[s] \cap F[r] = {}

CounterFrom(n) == n > 0 => \E i \in Slots : slot[i].key = Recovery /\ slot[i].n >= n

CountInv == \E n \in Nat : CounterFrom(n) /\ \E F, G : Numbered(F, G, n)

(* A scan of the slots that has something to find finds a first one.       *)
LEMMA FirstExists ==
    ASSUME NEW T, T \subseteq Slots, T # {}
    PROVE  \E i \in T : First(i, T)
<1> DEFINE R == {p \in Nat \X Nat : p[1] < p[2]}
<1>1. T \subseteq Nat BY StatAssumption DEF Slots
<1>2. IsWellFoundedOn(R, Nat) BY NatLessThanWellFounded, Zenon DEF OpToRel
<1>3. PICK i \in T : \A j \in T : ~(<<j, i>> \in R)
  <2> HIDE DEF R
  <2> QED BY <1>1, <1>2, WFMin, Zenon
<1>4. ASSUME NEW j \in T PROVE i <= j
  <2>1. i \in Nat /\ j \in Nat BY <1>1
  <2>2. <<j, i>> \notin R BY <1>3
  <2>3. ~(j < i) BY <2>1, <2>2
  <2> QED BY <2>1, <2>3
<1> QED BY <1>4 DEF First

(* Reports, and resets of other kinds, leave the counter where it is.      *)
LEMMA CounterKept ==
    ASSUME StatTypeOK, NEW n \in Nat, CounterFrom(n),
           \/ slot' = slot
           \/ \E k \in Keys : CountReport(k)
           \/ \E kind \in StatKinds : kind # KindOf[Recovery] /\ ResetKind(kind)
    PROVE  CounterFrom(n)'
<1> SUFFICES ASSUME n > 0
             PROVE  \E i \in Slots : slot'[i].key = Recovery /\ slot'[i].n >= n
  BY DEF CounterFrom
<1>1. PICK i \in Slots : slot[i].key = Recovery /\ slot[i].n >= n BY DEF CounterFrom
<1>2. slot[i].n \in Nat /\ Recovery \in Keys /\ Recovery # NoKey
  BY StatAssumption, ReplayAssumption DEF StatTypeOK
<1>3. CASE slot' = slot BY <1>1, <1>3
<1>4. ASSUME NEW k \in Keys, CountReport(k)
      PROVE  slot'[i].key = Recovery /\ slot'[i].n >= n
  <2>1. slot' = Counted(k) BY <1>4 DEF CountReport
  <2>2. CASE Counted(k)[i] = slot[i] BY <1>1, <2>1, <2>2
  <2>3. CASE Counted(k)[i] = [key |-> k, n |-> slot[i].n + 1] /\ slot[i].key \in {k, NoKey}
    BY <1>1, <1>2, <2>1, <2>3
  <2> QED BY <2>2, <2>3, CountedEffect
<1>5. ASSUME NEW kind \in StatKinds, kind # KindOf[Recovery], ResetKind(kind)
      PROVE  slot'[i] = slot[i]
  BY <1>1, <1>2, <1>5 DEF ResetKind
<1> QED BY <1>1, <1>3, <1>4, <1>5

(* A report of recovery that finds room raises the counter.                *)
LEMMA CounterRaised ==
    ASSUME StatTypeOK, OneSlotPerEntity, HasRoom(Recovery), CountReport(Recovery),
           NEW n \in Nat, CounterFrom(n)
    PROVE  CounterFrom(n + 1)'
<1> SUFFICES \E i \in Slots : slot'[i].key = Recovery /\ slot'[i].n >= n + 1
  BY DEF CounterFrom
<1>1. Recovery \in Keys /\ Recovery # NoKey BY StatAssumption, ReplayAssumption
<1>2. \A i \in Slots : slot[i].n \in Nat BY DEF StatTypeOK
<1> DEFINE S == IF Entry(Recovery) # {} THEN Entry(Recovery) ELSE Entry(NoKey)
<1>3. slot' = [i \in Slots |-> IF First(i, S) THEN [key |-> Recovery, n |-> slot[i].n + 1]
                               ELSE slot[i]]
  BY DEF CountReport, Counted
<1>4. S \subseteq Slots /\ S # {} BY DEF HasRoom, Entry
<1>5. S = Entry(Recovery) \/ Entry(Recovery) = {} OBVIOUS
<1> HIDE DEF S
<1>6. PICK i \in S : First(i, S) BY <1>4, FirstExists
<1>7. i \in Slots /\ slot'[i] = [key |-> Recovery, n |-> slot[i].n + 1] BY <1>3, <1>4, <1>6
<1>8. CASE n = 0 BY <1>2, <1>7, <1>8
<1>9. CASE n > 0
  <2>1. PICK j \in Slots : slot[j].key = Recovery /\ slot[j].n >= n BY <1>9 DEF CounterFrom
  <2>2. j \in Entry(Recovery) BY <2>1 DEF Entry
  <2>3. slot[i].key = Recovery BY <1>5, <2>2 DEF Entry
  <2>4. i = j BY <1>1, <1>7, <2>1, <2>3 DEF OneSlotPerEntity
  <2> QED BY <1>2, <1>7, <2>1, <2>4
<1> QED BY <1>8, <1>9

(* Nothing reported, nothing committed.                                    *)
LEMMA NothingOwed ==
    ASSUME owed' = 0, \A s \in Sessions : txn'[s].reported = 0
    PROVE  CountInv'
<1> DEFINE F == [s \in Sessions |-> {}]
<1>1. CounterFrom(0)' BY DEF CounterFrom
<1>2. Cardinality({}) = 0 BY FS_EmptySet
<1>3. Numbered(F, {}, 0)' BY <1>2 DEF Numbered
<1> QED BY <1>1, <1>3 DEF CountInv

(* What a numbering has to show after a step.                              *)
LEMMA NumberedNext ==
    ASSUME NEW F, NEW G, NEW n,
           F \in [Sessions -> SUBSET (1..n)], G \in SUBSET (1..n), Cardinality(G) = owed',
           \A s \in Sessions : Cardinality(F[s]) = txn'[s].reported,
           \A s \in Sessions : F[s] \cap G = {},
           \A s, r \in Sessions : s # r => F[s] \cap F[r] = {}
    PROVE  Numbered(F, G, n)'
  BY Zenon DEF Numbered

(* The steps of a session that neither report nor commit.                  *)
LEMMA NumbersKept ==
    ASSUME StatTypeOK, CountInv, owed' = owed,
           \A s \in Sessions : txn'[s].reported \in {txn[s].reported, 0},
           \/ slot' = slot
           \/ \E k \in Keys : CountReport(k)
           \/ \E kind \in StatKinds : kind # KindOf[Recovery] /\ ResetKind(kind)
    PROVE  CountInv'
<1>1. PICK n \in Nat : CounterFrom(n) /\ \E F, G : Numbered(F, G, n) BY DEF CountInv
<1>2. PICK F, G : Numbered(F, G, n) BY <1>1
<1>3. PICK H : H = [s \in Sessions |-> IF txn'[s].reported = txn[s].reported THEN F[s] ELSE {}]
  BY Zenon
<1>4. CounterFrom(n)' BY <1>1, CounterKept
<1>5. /\ F \in [Sessions -> SUBSET (1..n)] /\ G \in SUBSET (1..n)
      /\ Cardinality(G) = owed
      /\ \A s \in Sessions : Cardinality(F[s]) = txn[s].reported /\ F[s] \cap G = {}
      /\ \A s, r \in Sessions : s # r => F[s] \cap F[r] = {}
  BY <1>2 DEF Numbered
<1>6. H \in [Sessions -> SUBSET (1..n)] BY <1>5, <1>3
<1>7. ASSUME NEW s \in Sessions PROVE Cardinality(H[s]) = txn'[s].reported /\ H[s] \subseteq F[s]
  <2>1. CASE txn'[s].reported = txn[s].reported
    <3>1. H[s] = F[s] BY <1>3, <2>1
    <3> QED BY <1>5, <2>1, <3>1
  <2>2. CASE txn'[s].reported # txn[s].reported
    <3>1. H[s] = {} BY <1>3, <2>2
    <3>2. txn'[s].reported = 0 BY <2>2
    <3>3. Cardinality({}) = 0 BY FS_EmptySet, Zenon
    <3> QED BY <3>1, <3>2, <3>3, Zenon
  <2> QED BY <2>1, <2>2
<1>8. /\ \A s \in Sessions : H[s] \cap G = {}
      /\ \A s, r \in Sessions : s # r => H[s] \cap H[r] = {}
  BY <1>5, <1>7
<1>9. \A s \in Sessions : Cardinality(H[s]) = txn'[s].reported BY <1>7, Zenon
<1>10. Cardinality(G) = owed' /\ G \in SUBSET (1..n) BY <1>5
<1>11. Numbered(H, G, n)' BY <1>6, <1>8, <1>9, <1>10, NumberedNext, Zenon
<1> QED BY <1>4, <1>11 DEF CountInv

(* A call that is counted takes the next number.                           *)
LEMMA FinishCounted ==
    ASSUME StatInv, RInv, CountInv, NEW s \in Sessions, Finish(s)
    PROVE  CountInv'
<1>1. StatTypeOK /\ OneSlotPerEntity BY DEF StatInv
<1>2. txn \in [Sessions -> Txn] /\ Recovery \in Keys BY ReplayAssumption DEF RInv, ReplayTypeOK
<1>3. CountReport(Recovery) /\ owed' = owed BY DEF Finish
<1>4. /\ txn'[s].reported = txn[s].reported + IF HasRoom(Recovery) THEN 1 ELSE 0
      /\ \A r \in Sessions : r # s => txn'[r] = txn[r]
      /\ txn[s].reported \in Nat
  BY <1>2 DEF Finish, Txn
<1>5. CASE ~HasRoom(Recovery)
  <2>1. \A r \in Sessions : txn'[r].reported = txn[r].reported BY <1>4, <1>5
  <2> QED BY <1>1, <1>2, <1>3, <2>1, NumbersKept
<1>6. CASE HasRoom(Recovery)
  <2>1. PICK n \in Nat : CounterFrom(n) /\ \E F, G : Numbered(F, G, n) BY DEF CountInv
  <2>2. PICK F, G : Numbered(F, G, n) BY <2>1
  <2>3. CounterFrom(n + 1)' BY <1>1, <1>3, <1>6, <2>1, CounterRaised
  <2>4. /\ F \in [Sessions -> SUBSET (1..n)] /\ G \in SUBSET (1..n)
        /\ Cardinality(G) = owed
        /\ \A r \in Sessions : Cardinality(F[r]) = txn[r].reported /\ F[r] \cap G = {}
        /\ \A q, r \in Sessions : q # r => F[q] \cap F[r] = {}
    BY <2>2 DEF Numbered
  <2> DEFINE H == [F EXCEPT ![s] = F[s] \cup {n + 1}]
  <2>5. /\ 1..n \subseteq 1..(n + 1) /\ n + 1 \in 1..(n + 1) /\ n + 1 \notin 1..n
    OBVIOUS
  <2>6. /\ H \in [Sessions -> SUBSET (1..(n + 1))] /\ G \in SUBSET (1..(n + 1))
        /\ H[s] = F[s] \cup {n + 1} /\ \A r \in Sessions : r # s => H[r] = F[r]
    BY <2>4, <2>5
  <2>7. Cardinality(H[s]) = txn[s].reported + 1
    <3>1. IsFiniteSet(1..n) BY FS_Interval
    <3>2. IsFiniteSet(F[s]) /\ n + 1 \notin F[s] BY <2>4, <2>5, <3>1, FS_Subset
    <3>3. Cardinality(F[s] \cup {n + 1}) = Cardinality(F[s]) + 1 BY <3>2, FS_AddElement
    <3> QED BY <2>4, <2>6, <3>3
  <2> HIDE DEF H
  <2>8. \A r \in Sessions : Cardinality(H[r]) = txn'[r].reported
    <3>1. txn'[s].reported = txn[s].reported + 1 BY <1>4, <1>6
    <3> QED BY <1>4, <2>4, <2>6, <2>7, <3>1, Zenon
  <2>9. /\ \A r \in Sessions : H[r] \cap G = {}
        /\ \A q, r \in Sessions : q # r => H[q] \cap H[r] = {}
    BY <2>4, <2>5, <2>6
  <2>10. Cardinality(G) = owed' BY <1>3, <2>4
  <2>11. Numbered(H, G, n + 1)' BY <2>6, <2>8, <2>9, <2>10, NumberedNext, Zenon
  <2> QED BY <2>3, <2>11 DEF CountInv
<1> QED BY <1>5, <1>6

(* At the commit the numbers of the transaction become committed ones.     *)
LEMMA CommitCounted ==
    ASSUME StatInv, RInv, CountInv, NEW s \in Sessions, Commit(s)
    PROVE  CountInv'
<1>1. txn \in [Sessions -> Txn] BY DEF RInv, ReplayTypeOK
<1>2. /\ owed' = owed + txn[s].reported /\ slot' = slot
      /\ txn' = [txn EXCEPT ![s] = NoTxn]
  BY DEF Commit, statVars
<1>3. txn'[s].reported = 0 /\ \A r \in Sessions : r # s => txn'[r] = txn[r]
  BY <1>1, <1>2 DEF NoTxn
<1>4. PICK n \in Nat : CounterFrom(n) /\ \E F, G : Numbered(F, G, n) BY DEF CountInv
<1>5. PICK F, G : Numbered(F, G, n) BY <1>4
<1>6. CounterFrom(n)' BY <1>2, <1>4 DEF CounterFrom
<1>7. /\ F \in [Sessions -> SUBSET (1..n)] /\ G \in SUBSET (1..n)
      /\ Cardinality(G) = owed
      /\ \A r \in Sessions : Cardinality(F[r]) = txn[r].reported /\ F[r] \cap G = {}
      /\ \A q, r \in Sessions : q # r => F[q] \cap F[r] = {}
  BY <1>5 DEF Numbered
<1> DEFINE H == [F EXCEPT ![s] = {}]
<1>8. H \in [Sessions -> SUBSET (1..n)] /\ H[s] = {} /\ \A r \in Sessions : r # s => H[r] = F[r]
  BY <1>7
<1>9. Cardinality(G \cup F[s]) = owed'
  <2>1. IsFiniteSet(1..n) BY FS_Interval
  <2>2. IsFiniteSet(G) /\ IsFiniteSet(F[s]) BY <1>7, <2>1, FS_Subset, Zenon
  <2>3. Cardinality(G \cup F[s]) = Cardinality(G) + Cardinality(F[s]) - Cardinality(G \cap F[s])
    BY <2>2, FS_Union
  <2>4. G \cap F[s] = {} BY <1>7
  <2>5. Cardinality(G \cap F[s]) = 0 BY <2>4, FS_EmptySet
  <2>6. Cardinality(G) \in Nat /\ Cardinality(F[s]) \in Nat BY <2>2, FS_CardinalityType
  <2> QED BY <1>2, <1>7, <2>3, <2>5, <2>6
<1> HIDE DEF H
<1>10. \A r \in Sessions : Cardinality(H[r]) = txn'[r].reported
  BY <1>3, <1>7, <1>8, FS_EmptySet
<1>11. /\ \A r \in Sessions : H[r] \cap (G \cup F[s]) = {}
       /\ \A q, r \in Sessions : q # r => H[q] \cap H[r] = {}
  BY <1>7, <1>8
<1>12. G \cup F[s] \in SUBSET (1..n) BY <1>7, Zenon
<1>13. Numbered(H, G \cup F[s], n)' BY <1>8, <1>9, <1>10, <1>11, <1>12, NumberedNext, Zenon
<1> QED BY <1>6, <1>13 DEF CountInv

LEMMA CountInvInit == Init => CountInv
<1> SUFFICES ASSUME Init PROVE CountInv OBVIOUS
<1> DEFINE F == [s \in Sessions |-> {}]
<1>1. owed = 0 /\ \A s \in Sessions : txn[s].reported = 0 BY DEF Init, NoTxn
<1>2. CounterFrom(0) BY DEF CounterFrom
<1>3. Cardinality({}) = 0 BY FS_EmptySet, Zenon
<1>4. Numbered(F, {}, 0) BY <1>1, <1>3 DEF Numbered
<1> QED BY <1>2, <1>4 DEF CountInv

LEMMA CountInvKept == StatInv /\ RInv /\ CountInv /\ [Next]_vars => CountInv'
<1> SUFFICES ASSUME StatInv, RInv, CountInv, [Next]_vars PROVE CountInv' OBVIOUS
<1>1. StatTypeOK /\ txn \in [Sessions -> Txn] BY DEF StatInv, RInv, ReplayTypeOK
<1>2. CASE slot' = slot /\ owed' = owed /\ txn' = txn BY <1>1, <1>2, NumbersKept
<1>3. ASSUME NEW s \in Sessions, List(s) PROVE CountInv'
  <2>1. owed' = owed /\ slot' = slot BY <1>3 DEF List, statVars
  <2>2. \A r \in Sessions : txn'[r].reported = txn[r].reported BY <1>1, <1>3 DEF List, Txn
  <2> QED BY <1>1, <2>1, <2>2, NumbersKept
<1>4. ASSUME NEW s \in Sessions, NEW c \in Checkpoints, Look(s, c) PROVE CountInv'
  <2>1. owed' = owed /\ slot' = slot BY <1>4 DEF Look, statVars
  <2>2. \A r \in Sessions : txn'[r].reported = txn[r].reported BY <1>1, <1>4 DEF Look, Txn
  <2> QED BY <1>1, <2>1, <2>2, NumbersKept
<1>5. ASSUME NEW s \in Sessions, NEW c \in Checkpoints, Replay(s, c) PROVE CountInv'
  <2>1. owed' = owed /\ slot' = slot BY <1>5 DEF Replay, statVars
  <2>2. \A r \in Sessions : txn'[r].reported = txn[r].reported BY <1>1, <1>5 DEF Replay, Txn
  <2> QED BY <1>1, <2>1, <2>2, NumbersKept
<1>6. ASSUME NEW s \in Sessions, Abort(s) PROVE CountInv'
  <2>1. owed' = owed /\ slot' = slot BY <1>6 DEF Abort, statVars
  <2>2. \A r \in Sessions : txn'[r].reported \in {txn[r].reported, 0}
    BY <1>1, <1>6 DEF Abort, NoTxn
  <2> QED BY <1>1, <2>1, <2>2, NumbersKept
<1>7. ASSUME NEW c \in Checkpoints, NewCheckpoint(c) PROVE CountInv'
  BY <1>2, <1>7 DEF NewCheckpoint, statVars
<1>8. ASSUME Forgiven PROVE CountInv'
  <2>1. owed' = 0 /\ \A s \in Sessions : txn'[s].reported = 0
    BY <1>1, <1>8 DEF Forgiven, Txn
  <2> QED BY <2>1, NothingOwed
<1>9. ASSUME Crash PROVE CountInv'
  <2>1. owed' = 0 /\ \A s \in Sessions : txn'[s].reported = 0 BY <1>9 DEF Crash, NoTxn
  <2> QED BY <2>1, NothingOwed
<1>10. ASSUME StatStep PROVE CountInv'
  <2>1. ASSUME UNCHANGED replayVars,
               \/ slot' = slot
               \/ \E k \in Keys : CountReport(k)
               \/ \E kind \in StatKinds : kind # KindOf[Recovery] /\ ResetKind(kind)
        PROVE  CountInv'
    <3>1. owed' = owed /\ txn' = txn BY <2>1 DEF replayVars
    <3>2. \A r \in Sessions : txn'[r].reported \in {txn[r].reported, 0} BY <3>1
    <3> QED BY <1>1, <2>1, <3>1, <3>2, NumbersKept
  <2>2. ASSUME NEW k \in Keys \ {Recovery}, Report(k), UNCHANGED replayVars PROVE CountInv'
    BY <2>1, <2>2 DEF Report
  <2>3. ASSUME NEW r \in Readers, NEW k \in Keys, Lookup(r, k), UNCHANGED replayVars
        PROVE  CountInv'
    BY <2>1, <2>3 DEF Lookup
  <2>4. ASSUME NEW r \in Readers, Read(r), UNCHANGED replayVars PROVE CountInv'
    BY <2>1, <2>4 DEF Read
  <2>5. ASSUME NEW kind \in StatKinds, ResetKind(kind),
               IF kind = KindOf[Recovery] THEN Forgiven ELSE UNCHANGED replayVars
        PROVE  CountInv'
    BY <1>8, <2>1, <2>5
  <2> QED BY <1>8, <1>10, <2>2, <2>3, <2>4, <2>5 DEF StatStep
<1>11. CASE UNCHANGED vars BY <1>2, <1>11 DEF vars, statVars, replayVars
<1> QED
  BY <1>3, <1>4, <1>5, <1>6, <1>7, <1>9, <1>10, <1>11, FinishCounted, CommitCounted DEF Next

(* The counter of recovery never falls behind the committed calls that     *)
(* found room in the table, whatever calls, errors, reports and resets     *)
(* interleave, for any number of backends and slots.                       *)
THEOREM CommittedStaysCounted == Spec => []CommittedIsCounted
<1>1. Init => StatInv /\ RInv /\ CountInv
  BY StatInvInit, RInvInit, CountInvInit DEF Init
<1>2. StatInv /\ RInv /\ CountInv /\ [Next]_vars => (StatInv /\ RInv /\ CountInv)'
  BY StatInvKept, StepsOfTable, RInvKept, CountInvKept
<1>3. StatInv /\ RInv /\ CountInv => CommittedIsCounted
  <2> SUFFICES ASSUME StatInv, RInv, CountInv, owed > 0
               PROVE  \E i \in Slots : slot[i].key = Recovery /\ slot[i].n >= owed
    BY DEF CommittedIsCounted
  <2>1. PICK n \in Nat : CounterFrom(n) /\ \E F, G : Numbered(F, G, n) BY DEF CountInv
  <2>2. PICK F, G : Numbered(F, G, n) BY <2>1
  <2>3. G \in SUBSET (1..n) /\ Cardinality(G) = owed BY <2>2 DEF Numbered
  <2>4. IsFiniteSet(1..n) /\ Cardinality(1..n) = n BY FS_Interval
  <2>5. Cardinality(G) <= n BY <2>3, <2>4, FS_Subset, Zenon
  <2>6. owed \in Nat /\ \A i \in Slots : slot[i].n \in Nat
    BY DEF RInv, ReplayTypeOK, StatInv, StatTypeOK
  <2>7. PICK i \in Slots : slot[i].key = Recovery /\ slot[i].n >= n
    BY <2>1, <2>3, <2>5, <2>6 DEF CounterFrom
  <2> QED BY <2>3, <2>5, <2>6, <2>7
<1> QED BY <1>1, <1>2, <1>3, PTL DEF Spec
=============================================================================
