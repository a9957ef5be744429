SPECIFICATION FairSpec
CONSTANTS
  Tables <- TwoTables
  Starts <- TroubledStarts
  Edits <- DriftEdits
  FaultyCalls = {"read", "ddl"}
  LostOutcomes = {"not applied"}
  MaxFaults = 2
  MaxRuns = 1
INVARIANTS DetachedOnlyIfRestoreFailed UnplannedConstraintsSurvive
           PlanFromAllTables StalePlanRefused
PROPERTIES FailFast ImplementsContract RunEnds
