CONSTANTS
  Tasks = {t1}
  NoTask = NoTask
  HookTasks = {t1, t2}
  Sessions = {s1, s2}
  Ids = {x1, x2}
  NoId = NoId
  DanglingIds = {x2, NoId}
  TableSize = 2
  Dims = {"tokens", "cost"}
  MaxInt = 7
  Budget <- BudgetDef
  FixedDeltas <- FixedDeltasDef
  ToolDeltas <- ToolDeltasDef
  MaxTxns = 3
SPECIFICATION Spec
INVARIANTS TypeOK NoLostCharge BilledWithinCeiling NoDuplicateLease InFlightListed ListedExplained
PROPERTY IsLeaseSet
SYMMETRY Symmetry
