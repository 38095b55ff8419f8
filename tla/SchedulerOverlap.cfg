CONSTANTS
  u1 = u1
  u2 = u2
  a1 = a1
  User <- TwoUsers
  Seller = u2
  Auction = {a1}
  MaxRuns = 2
  Recovered = Recovered
  NoBid = NoBid
  Nobody = Nobody
  Cent = 1
  MaxStored = 2
  StartingPrice = 1
  Increment = 1
  MaxBidAmount = 2
  MaxBids = 2
  MaxFaults = 0
SPECIFICATION Spec
INVARIANT MailedOnce
