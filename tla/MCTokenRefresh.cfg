CONSTANTS
  w1 = w1
  w2 = w2
  w3 = w3
  Worker <- TwoWorkers
  NULL = NULL
  Asked = Asked
  Refused = Refused
  HasProxy = TRUE
  Faults = TRUE
  MaxEpoch = 3
SPECIFICATION FairSpec
INVARIANTS TypeOK NewestTokenStored
PROPERTIES StoreGoesBackOnlyIfTolerated RefreshEnds
