CONSTANTS
  c1 = c1
  c2 = c2
  c3 = c3
  w1 = w1
  w2 = w2
  NULL = NULL
  Call <- Calls
  Worker = {w1, w2}
SPECIFICATION FairSpec
INVARIANTS TypeOK OneListening NoDanglingState NoLeakWhileServing
PROPERTIES CallAnswered CleanupRepeats
CHECK_DEADLOCK FALSE
