SPECIFICATION StreamSpec
CONSTANTS
  Streams = {c1}
  c1 = c1
  MaxGen = 1
  MaxDrops = 1
  Slots = {s1, s2}
  s1 = s1
  s2 = s2
  Visitors = {alice}
  Anon = Anon
  Offered <- MCOffered
  Limits <- MCLimits
  SweepAt = 2
  CallerDeadline = 1
  UpstreamDeadline = 1
  HandshakeDeadline = 1
  Sent <- MCSent
  MaxAsked = 3
INVARIANTS ClosedStaysClosed BudgetHolds StreamHasAReader FramesArriveWhole
PROPERTIES BegunByHand LaunchIsFollowed MatchIsReached
CHECK_DEADLOCK FALSE
