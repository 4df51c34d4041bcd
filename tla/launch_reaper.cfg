SPECIFICATION ReapedSpec
CONSTANTS
  Drills = {d1}
  Replicas = {r1}
  Workers = {w1}
  Operations = {"start-drill", "judge", "expire"}
  Measured = {}
PROPERTIES ClusterIsReaped
