CONSTANTS
  c1 = c1
  c2 = c2
  Client = {c1, c2}
  User = {c1, c2}
  UserOf <- OwnUser
  SenderIDs <- AnySender
  NoClient = NoClient
  Recovered = Recovered
  NoBid = NoBid
  StartingPrice = 0
  Increment = 1
  MaxBidAmount = 2
  RegisterCap = 2
  UnregisterCap = 1
  BidCap = 1
  SendCap = 1
  Reply <- NoticeReply
  MaxBids = 2
SPECIFICATION Spec
INVARIANTS TypeOK ChannelDiscipline HistoryRises MembersInformed
PROPERTY ImplementsAuction
SYMMETRY EachAlike
CHECK_DEADLOCK FALSE
