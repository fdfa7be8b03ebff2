CONSTANTS
  Dbs = {d1}
  SlotCount = 2
  NumSlots = 4
  Faults = {"worker"}
  MaxFaults = 1
  MaxChanges = 0
SPECIFICATION Spec
INVARIANT BoundedSlotSet
