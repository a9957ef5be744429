SPECIFICATION Spec
CONSTANTS
  Tables <- TwoTables
  Starts <- CommentStarts
  Edits = {}
  FaultyCalls = {}
  LostOutcomes = {}
  MaxFaults = 0
  MaxRuns = 1
INVARIANTS ForeignKeysLast
