SPECIFICATION Spec
CONSTANTS
  Tables <- TwoTables
  Starts <- EngineStarts
  Edits = {}
  FaultyCalls = {}
  LostOutcomes = {}
  MaxFaults = 0
  MaxRuns = 1
PROPERTIES DropsOnlyExtra
