SPECIFICATION Spec
CONSTANTS
  Tables <- ThreeTables
  Starts <- PlanStarts
  Edits = {}
  FaultyCalls = {}
  LostOutcomes = {}
  MaxFaults = 0
  MaxRuns = 1
INVARIANTS NothingInTheWay PlanAccepted OkMeansConverged UnplannedConstraintsSurvive AnchorsPresent
PROPERTIES ScopeRespected
