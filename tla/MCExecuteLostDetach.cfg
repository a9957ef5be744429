SPECIFICATION Spec
CONSTANTS
  Tables <- TwoTables
  Starts <- FaultStarts
  Edits = {}
  FaultyCalls = {"ddl"}
  LostOutcomes = {"applied"}
  MaxFaults = 1
  MaxRuns = 1
INVARIANTS UnplannedConstraintsSurvive
