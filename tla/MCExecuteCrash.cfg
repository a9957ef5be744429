SPECIFICATION Spec
CONSTANTS
  Tables <- TwoTables
  Starts <- CrashStarts
  Edits = {}
  FaultyCalls = {"ddl"}
  LostOutcomes = {"applied", "not applied"}
  MaxFaults = 1
  MaxRuns = 2
INVARIANTS TypeOK CrashHeals LossesUnanswered
PROPERTIES NothingDroppedUnasked
