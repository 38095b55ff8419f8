CONSTANTS
  k1 = k1
  k2 = k2
  p1 = p1
  p2 = p2
  p3 = p3
  Key <- OneKey
  Request <- ThreeRequests
  Rate = 1
  Capacity = 2
  TTL = 2
  MaxTime = 5
  MaxBuckets = 2
SPECIFICATION Spec
INVARIANTS
  TypeOK
  KeyBounded
PROPERTIES
  RefusedOnlyIfServed
  CleanupForgetsNothing
SYMMETRY ThreeAlike
CHECK_DEADLOCK FALSE
