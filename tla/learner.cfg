SPECIFICATION LearnerSpec
CONSTANTS
  Refreshes = {r1}
  Mutations = {m1}
  r1 = r1
  m1 = m1
  MaxRev = 1
  MaxGen = 2
  MaxAge = 2
  StaleAfter = 2
  Options = {fix, trap}
  Wrong = {trap}
  fix = fix
  trap = trap
  Stages = 2
  Signals = 2
  Extras = 1
  MaxAttempts = 2
  s1 = s1
  Segments = {s1}
  Prerequisites <- Alone
  Mastery = {}
  Scores = {80}
  CleanRequired = 1
  MaxWrites = 2
  Tiers = {"canary", "redis"}
  Dialled = {"canary"}
  Optional = {"canary"}
  Switched = {"redis"}
  Dial = "canary"
  Replicas <- MCReplicas
  MaxWant = 2
  MaxZoom = 1
  MaxClusters = 1
INVARIANTS
  CurvesMeetTheCards ThumbTellsTheTruth
  HeldRunIsWatched
  LessonIsForThisIncident DebriefIsTrue MisstepsAreFaced
  ShownIsKept
PROPERTIES PlainPressPicks LatePollNeverReverts MovesAreEarned AccountRemembers
CHECK_DEADLOCK FALSE
