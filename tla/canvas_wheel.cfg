SPECIFICATION CanvasSpec
CONSTANTS
  Tiers = {"canary", "redis"}
  Dialled = {"canary"}
  Optional = {"canary"}
  Switched = {"redis"}
  Dial = "canary"
  Replicas <- MCReplicas
  MaxWant = 2
  MaxZoom = 1
  MaxClusters = 1
INVARIANTS WheelStaysOnTheGraph
CHECK_DEADLOCK FALSE
