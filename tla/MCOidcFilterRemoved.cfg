CONSTANTS
  id1 = id1
  id2 = id2
  id3 = id3
  strange = strange
  w1 = w1
  w2 = w2
  home = home
  NULL = NULL
  Worker = {w1, w2}
  SessionId <- ThreeSessions
  StrangeId = strange
  Url = {home}
  Bodies <- SomeBodies
  HasLogout = TRUE
  HasAccessToken = TRUE
  ExpiryMargin = 1
  VerifySkew = 0
  AbsoluteTimeout = 0
  IdleTimeout = 0
  TimeModulus = 16
  StartTime = 1
  MaxTime = 2
SPECIFICATION Spec
INVARIANTS RemovedStaysRemoved
