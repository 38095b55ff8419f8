CONSTANTS
  c1 = c1
  c2 = c2
  Client = {c1, c2}
  User = {c1, c2}
  UserOf <- OwnUser
  SenderIDs <- OwnSender
  NoClient = NoClient
  Recovered = Recovered
  NoBid = NoBid
  StartingPrice = 0
  Increment = 1
  MaxBidAmount = 1
  RegisterCap = 2
  UnregisterCap = 1
  BidCap = 1
  SendCap = 1
  Reply <- NoReply
  MaxBids = 1
SPECIFICATION FairSpec
PROPERTIES CancelledHubStops JoinsServed BidsJudged
CHECK_DEADLOCK FALSE
