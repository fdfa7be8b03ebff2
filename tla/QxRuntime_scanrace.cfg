CONSTANTS
  t1 = t1
  t2 = t2
  w1 = w1
  w2 = w2
  Tasks = {t1}
  NoTask = NoTask
  Sessions = {s1}
  Workers = {w1}
  SlotOf <- SlotOfDef
  OwnerSlot <- OneSlotDef
  Priority <- PriorityDef
  MaxAttempts = 2
  Ops = {"startUncheckpointed", "scan"}
  Broken = {}
SPECIFICATION Spec
INVARIANTS QueuedHasRetryRow
