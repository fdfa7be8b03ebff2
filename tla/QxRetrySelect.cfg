CONSTANTS
  Entries <- EntriesDef
  Times = {0, 1, 2}
  None = None
SPECIFICATION Spec
INVARIANTS SelectsBest BackoffGrows
