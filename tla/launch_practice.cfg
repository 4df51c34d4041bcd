SPECIFICATION Spec
CONSTANTS
  Drills = {d1}
  Replicas = {r1}
  Workers = {w1}
  Operations = {"start-drill", "end-drill"}
  Measured = {"starting-workloads"}
INVARIANTS RatedOnlyIfActivated
