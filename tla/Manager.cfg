CONSTANTS
  u1 = u1
  u2 = u2
  j1 = j1
  j2 = j2
  User <- TwoUsers
  Joiner <- TwoJoiners
  Recovered = Recovered
  NoBid = NoBid
  Nobody = Nobody
  StartingPrice = 2
  Increment = 1
  MaxBidAmount = 5
  MaxStored = 4
  Cent = 2
  Whole = 4
  MaxHubs = 2
  MaxBids = 2
  MaxRestarts = 1
  FirstStatus = {"INACTIVE", "ACTIVE"}
  Faults = {"stop", "delete"}
SPECIFICATION Spec
INVARIANTS
  TypeOK
  OneHub
  RisesUntilLoss
  AnnouncedBidWins
  StoppedStaysEmpty
  RestoredHubsGo
SYMMETRY EachAlike
CHECK_DEADLOCK FALSE
