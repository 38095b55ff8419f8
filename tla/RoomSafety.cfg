CONSTANTS
  c1 = c1
  c2 = c2
  Client = {c1, c2}
  User = {c1, c2}
  UserOf <- OwnUser
  SenderIDs <- OwnSender
  NoClient = NoClient
  Recovered = Recovered
  NoBid = NoBid
  StartingPrice = 2
  Increment = 1
  MaxBidAmount = 3
  RegisterCap = 1
  UnregisterCap = 1
  BidCap = 1
  SendCap = 1
  Reply <- Message
  MaxBids = 1
  Requests = {"place_bid"}
SPECIFICATION RoomSpec
INVARIANT RoomTypeOK
PROPERTY ShownRises
SYMMETRY EachAlike
CHECK_DEADLOCK FALSE
