SPECIFICATION Spec
CONSTANTS
  Drills = {d1, d2}
  Replicas = {r1, r2}
  Workers = {}
  Operations = {}
  Measured = {"starting-workloads"}
SYMMETRY Symmetry
INVARIANTS RatedOnlyIfActivated FailedLaunchNamesNoAttempt
PROPERTIES ImplementsRegister LaunchKeepsItsMatch
CHECK_DEADLOCK FALSE
