CONSTANTS
  Trip = 1
  Baseline = 8
  ShippedSets = {2}
  MaxReports = 1
  MaxChanges = 1
SPECIFICATION Spec
INVARIANT LiveEvidenceClears
CHECK_DEADLOCK FALSE
