CONSTANTS
  c1 = c1
  c2 = c2
  Client = {c1}
  User = {c1}
  UserOf <- OneUser
  SenderIDs <- OneSender
  NoClient = NoClient
  Recovered = Recovered
  NoBid = NoBid
  StartingPrice = 1
  Increment = 1
  MaxBidAmount = 2
  RegisterCap = 1
  UnregisterCap = 1
  BidCap = 1
  SendCap = 3
  Reply <- Message
  MaxBids = 1
  Requests = {"ping"}
SPECIFICATION RoomSpec
INVARIANT NoSendOnClosed
CHECK_DEADLOCK FALSE
