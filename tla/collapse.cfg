SPECIFICATION Spec
CONSTANTS
  W = 3
  Inputs <- MCInputs
INVARIANTS
  CollapseTypeOK
  SameCoverage
  Minimal
