CONSTANTS
  Dbs = {d1, d2}
  SlotCount = 1
  NumSlots = 3
  Faults = {"worker", "launcher", "crash"}
  MaxFaults = 2
  MaxChanges = 2
SPECIFICATION Spec
INVARIANTS TypeOK HandlesNameWorkers DuplicatesBounded
PROPERTIES ServedUnlessFull UnwantedReaped
