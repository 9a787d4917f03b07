CONSTANTS
  w1 = w1
  w2 = w2
  w3 = w3
  s1 = s1
  s2 = s2
  s3 = s3
  s4 = s4
  NULL = NULL
  Dangling = Dangling
  Worker <- TwoWorkers
  Store <- Stores
SPECIFICATION Spec
INVARIANT SharedStore

