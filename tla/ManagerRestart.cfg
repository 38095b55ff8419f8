CONSTANTS
  u1 = u1
  u2 = u2
  j1 = j1
  j2 = j2
  User <- TwoUsers
  Joiner <- TwoJoiners
  Recovered = Recovered
  NoBid = NoBid
  Nobody = Nobody
  StartingPrice = 1
  Increment = 1
  MaxBidAmount = 4
  MaxStored = 3
  Cent = 1
  Whole = 1
  MaxHubs = 2
  MaxBids = 2
  MaxRestarts = 1
  FirstStatus = {"INACTIVE", "ACTIVE"}
  Faults = {"stop"}
SPECIFICATION Spec
INVARIANT AcceptedRises
CHECK_DEADLOCK FALSE
