CONSTANTS
  id1 = id1
  id2 = id2
  tokens = tokens
  login = login
  NULL = NULL
  SessionId <- MCSessionId
  TokenResponse <- MCTokenResponse
  AuthorizationState <- MCAuthorizationState
  AbsoluteTimeout = 2
  IdleTimeout = 1
  TimeModulus = 16
  StartTime = 1
  MaxTime = 5
SPECIFICATION FairSpec
INVARIANTS TypeOK SweptClean
PROPERTIES SweepRemovesOnlyExpired AbsoluteTimeoutEnforced
