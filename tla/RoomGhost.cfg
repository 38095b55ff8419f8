CONSTANTS
  c1 = c1
  c2 = c2
  Client = {c1}
  User = {c1}
  UserOf <- OneUser
  SenderIDs <- OneSender
  NoClient = NoClient
  Recovered = Recovered
  NoBid = NoBid
  StartingPrice = 0
  Increment = 1
  MaxBidAmount = 1
  RegisterCap = 1
  UnregisterCap = 1
  BidCap = 1
  SendCap = 1
  Reply <- Message
  MaxBids = 0
  Requests = {}
SPECIFICATION FairRoomSpec
PROPERTY BrokenLeaves
CHECK_DEADLOCK FALSE
