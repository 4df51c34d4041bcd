SPECIFICATION AccountSpec
CONSTANTS
  Devices = {d1, d2}
  d1 = d1
  d2 = d2
  Providers = {"google", "github"}
  Names = {"ada"}
  Links = {"site"}
  Themes = {"dark"}
  Sids = {s1, s2, s3}
  s1 = s1
  s2 = s2
  s3 = s3
  MaxAsked = 1
  MaxMoves = 1
  NoSid = NoSid
  SignedOut = SignedOut
  Loading = Loading
  Nothing = Nothing
INVARIANTS SignInMethodRemains RevokedIsRefused WaitsForAnAnswer
PROPERTIES PicksStand
CHECK_DEADLOCK FALSE
