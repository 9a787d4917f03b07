CONSTANTS
  w1 = w1
  w2 = w2
  w3 = w3
  Worker <- TwoWorkers
  NULL = NULL
  Asked = Asked
  Refused = Refused
  HasProxy = FALSE
  Faults = FALSE
  MaxEpoch = 2
SPECIFICATION Spec
INVARIANT SessionKept
