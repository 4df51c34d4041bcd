SPECIFICATION PolledSpec
CONSTANTS
  Drills = {d1}
  Replicas = {r1}
  Workers = {w1}
  Operations = {"start-drill", "end-drill", "judge", "delete"}
  Measured = {"starting-workloads"}
INVARIANTS NamedAttemptsExist
PROPERTIES LaunchSettles
