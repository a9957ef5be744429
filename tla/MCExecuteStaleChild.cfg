SPECIFICATION Spec
CONSTANTS
  Tables <- TwoTables
  Starts <- DriftStarts
  Edits <- DriftEdits
  FaultyCalls = {}
  LostOutcomes = {}
  MaxFaults = 0
  MaxRuns = 1
INVARIANTS StatementsFresh
