CONSTANTS
  t1 = t1
  t2 = t2
  w1 = w1
  w2 = w2
  Tasks = {t1, t2}
  NoTask = NoTask
  Sessions = {s1}
  Workers = {w1, w2}
  SlotOf <- SlotOfDef
  OwnerSlot <- OwnerSlotDef
  Priority <- PriorityDef
  MaxAttempts = 2
  Ops = {"submit", "resume", "startUncheckpointed", "startExhausted", "rebuild", "tick"}
  Broken = {}
SPECIFICATION Spec
INVARIANTS RowsAgree LastIsNewest
PROPERTIES ImplementsLifecycle
