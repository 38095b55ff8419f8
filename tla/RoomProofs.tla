------------------------------ MODULE RoomProofs ------------------------------
(***************************************************************************)
(* The room is a hub, for any number of connections and any requests, so   *)
(* what HubProofs, HubBidProofs and HubPriceProofs say of a hub holds of   *)
(* the room.                                                               *)
(***************************************************************************)
EXTENDS AuctionRoom, HubPriceProofs

\* While sendCurrentBidAndCount is between its two looks at the highest bid
\* there is one, and the message under way carries a bid.
PriceInHand ==
  \A c \in Client : rp[c] = "price" => /\ highestBid # NoBid
                                       /\ rmsg[c].type = "price"
                                       /\ rmsg[c].bid # NoBid

RoomInv == RoomTypeOK /\ PriceInHand

\* A pump's step is a step of the hub's environment, or none of the hub.
LEMMA RoomStepIsHubStep == RoomTypeOK /\ [RoomNext]_roomVars => [Next]_vars
<1>. SUFFICES ASSUME RoomTypeOK, [RoomNext]_roomVars PROVE [Next]_vars
  OBVIOUS
<1>1. CASE UNCHANGED roomVars
  BY <1>1 DEF roomVars
<1>2. CASE RunHub
  BY <1>2 DEF RunHub, Next, HubStep
<1>3. CASE RunServer
  BY <1>3 DEF RunServer, Next
<1>4. ASSUME NEW c \in Client, ReadPump(c) \/ WritePump(c) \/ Peer(c) PROVE [Next]_vars
  <2>1. CASE CheckContext(c) \/ ReadFails(c) \/ ReadPrice(c)
    BY <2>1 DEF CheckContext, ReadFails, ReadPrice
  <2>2. CASE Answer(c)
    <3>1. rmsg[c] \in Reply
      BY ReplyAssumption DEF RoomTypeOK
    <3>. QED
      BY <2>2, <3>1 DEF Answer, Next, ConnectionStep
  <2>3. CASE ForwardBid(c)
    BY <2>3 DEF ForwardBid, Next, ConnectionStep
  <2>4. CASE Leave(c) \/ ExitReadPump(c)
    BY <2>4 DEF Leave, ExitReadPump, Next, ConnectionStep
  <2>5. CASE Write(c) \/ ExitWritePump(c)
    BY <2>5 DEF Write, ExitWritePump, Next, ConnectionStep
  <2>6. CASE Join(c) \/ RefuseJoin(c) \/ ConnectionBreaks(c)
    BY <2>6 DEF Join, RefuseJoin, ConnectionBreaks, Next, ConnectionStep
  <2>7. CASE \E request \in Requests : Receive(c, request)
    BY <2>7 DEF Receive
  <2>. QED
    BY <1>4, <2>1, <2>2, <2>3, <2>4, <2>5, <2>6, <2>7 DEF ReadPump, WritePump, Peer
<1>. QED
  BY <1>1, <1>2, <1>3, <1>4 DEF RoomNext

\* The hub never forgets that there is a highest bid, and never a connection.
LEMMA HubKeeps ==
  TypeInv /\ [Next]_vars => (highestBid # NoBid => highestBid' # NoBid) /\ joined \subseteq joined'
<1>. SUFFICES ASSUME TypeInv, [Next]_vars
              PROVE  (highestBid # NoBid => highestBid' # NoBid) /\ joined \subseteq joined'
  OBVIOUS
<1>1. highestBid # NoBid => highestBid' # NoBid
  <2>1. CASE acceptBid
    <3>1. highestBid' \in Bid
      BY <2>1 DEF acceptBid, TypeInv, RestTyped
    <3>. QED
      BY <3>1, BidRulesAssumption, NoBidAssumption DEF Bid, Price
  <2>2. CASE UNCHANGED highestBid
    BY <2>2
  <2>. QED
    BY <2>1, <2>2, BidVarsChange DEF bidVars
<1>2. joined \subseteq joined'
  <2>1. CASE HubStep
    BY <2>1 DEF HubStep, HubWork, handleClientRegistration, handleClientUnregistration,
       broadcastToOthers, sendAuctionDataToClient, sendCurrentBidToClient, rejectBid,
       acceptBid, closeAllClients, connVars
  <2>2. CASE ServerStep
    BY <2>2 DEF ServerStep, CancelFlag, CancelContext, EndTimePasses, connVars
  <2>3. CASE ConnectionStep
    BY <2>3 DEF ConnectionStep, Register, Unregister, SubmitBid, SendReply, WriteMessage,
       connVars
  <2>4. CASE UNCHANGED vars
    BY <2>4 DEF vars, connVars
  <2>. QED
    BY <2>1, <2>2, <2>3, <2>4 DEF Next
<1>. QED
  BY <1>1, <1>2

\* What an answer, or any move of a ReadPump but Receive and ReadPrice, leaves.
LEMMA MoveTyped ==
  ASSUME RoomInv, TypeInv, TypeInv', [Next]_vars, NEW c \in Client,
         NEW label \in {"top", "read", "bid", "leave", "pong", "reply", "bidReply",
                        "refused", "exit", "done"},
         Goto(c, label),
         \/ UNCHANGED rmsg
         \/ \E m \in Message : rmsg' = [rmsg EXCEPT ![c] = m],
         conns' \subseteq conns \cup (joined' \ joined),
         wp' = wp \/ \E w \in {"run", "done"} : wp' = [wp EXCEPT ![c] = w]
  PROVE  RoomInv'
<1>1. RoomTypeOK'
  <2>1. RoomTypeOK /\ joined \subseteq joined'
    BY HubKeeps DEF RoomInv
  <2>2. conns' \subseteq joined'
    BY <2>1 DEF RoomTypeOK
  <2>3. rp' \in [Client -> {"none", "refused", "top", "read", "bid", "leave", "pong",
                           "reply", "price", "bidReply", "exit", "done"}]
    BY <2>1 DEF RoomTypeOK, Goto
  <2>4. rmsg' \in [Client -> Message]
    BY <2>1 DEF RoomTypeOK
  <2>5. wp' \in [Client -> {"none", "run", "done"}]
    BY <2>1 DEF RoomTypeOK
  <2>. QED
    BY <2>2, <2>3, <2>4, <2>5 DEF RoomTypeOK
<1>2. PriceInHand'
  BY HubKeeps DEF RoomInv, RoomTypeOK, PriceInHand, Goto
<1>. QED
  BY <1>1, <1>2 DEF RoomInv

LEMMA RoomStepTyped == RoomInv /\ TypeInv /\ [RoomNext]_roomVars => RoomInv' /\ TypeInv'
<1>. SUFFICES ASSUME RoomInv, TypeInv, [RoomNext]_roomVars PROVE RoomInv' /\ TypeInv'
  OBVIOUS
<1>1. [Next]_vars
  BY RoomStepIsHubStep DEF RoomInv
<1>2. TypeInv'
  BY <1>1, StepTyped
<1>3. (highestBid # NoBid => highestBid' # NoBid) /\ joined \subseteq joined'
  BY <1>1, HubKeeps
<1>4. CASE UNCHANGED <<rp, rmsg>> /\ conns' \subseteq conns /\ wp' = wp
  BY <1>2, <1>3, <1>4 DEF RoomInv, RoomTypeOK, PriceInHand
<1>5. ASSUME NEW c \in Client, ReadPump(c) \/ WritePump(c) \/ Peer(c) PROVE RoomInv'
  <2>1. CASE CheckContext(c) \/ ReadFails(c) \/ RefuseJoin(c)
    <3>1. \E label \in {"exit", "read", "refused"} : Goto(c, label)
      BY <2>1 DEF CheckContext, ReadFails, RefuseJoin
    <3>2. UNCHANGED <<rmsg, conns, wp>>
      BY <2>1 DEF CheckContext, ReadFails, RefuseJoin
    <3>. QED
      BY <1>1, <1>2, <3>1, <3>2, MoveTyped
  <2>2. CASE ForwardBid(c) \/ Leave(c)
    <3>1. \E label \in {"top", "reply"} : Goto(c, label)
      BY <2>2 DEF ForwardBid, Leave
    <3>2. UNCHANGED rmsg \/ \E m \in Message : rmsg' = [rmsg EXCEPT ![c] = m]
      BY <2>2, MessagesTyped DEF ForwardBid, Leave
    <3>3. UNCHANGED <<conns, wp>>
      BY <2>2 DEF ForwardBid, Leave
    <3>. QED
      BY <1>1, <1>2, <3>1, <3>2, <3>3, MoveTyped
  <2>3. CASE ExitReadPump(c)
    BY <1>1, <1>2, <2>3, MoveTyped DEF ExitReadPump
  <2>4. CASE Answer(c)
    <3>1. \E label \in {"top", "reply"} : Goto(c, label)
      BY <2>4 DEF Answer, AfterReply
    <3>2. \E m \in Message : rmsg' = [rmsg EXCEPT ![c] = m]
      BY <2>4, MessagesTyped DEF Answer, AfterReply
    <3>3. UNCHANGED <<conns, wp>>
      BY <2>4 DEF Answer
    <3>. QED
      BY <1>1, <1>2, <3>1, <3>2, <3>3, MoveTyped
  <2>5. CASE Join(c)
    <3>1. joined' = joined \cup {c} /\ c \notin joined
      BY <2>5 DEF Join, Register
    <3>. QED
      BY <1>1, <1>2, <2>5, <3>1, MoveTyped DEF Join
  <2>6. CASE WritePump(c) \/ ConnectionBreaks(c)
    BY <1>3, <2>6 DEF WritePump, Write, ExitWritePump, ConnectionBreaks, pumpVars, RoomInv,
       RoomTypeOK, PriceInHand
  <2>7. CASE ReadPrice(c)
    <3>. DEFINE m == [rmsg[c] EXCEPT !.bid.price = highestBid.price]
    <3>1. /\ rmsg' = [rmsg EXCEPT ![c] = m]
          /\ Goto(c, "bidReply")
          /\ UNCHANGED <<conns, wp>>
      BY <2>7 DEF ReadPrice, RoomInv, RoomTypeOK
    <3>2. /\ highestBid \in HighestBid /\ highestBid # NoBid
          /\ rmsg[c] \in Message /\ rmsg[c].type = "price" /\ rmsg[c].bid # NoBid
      BY <2>7 DEF ReadPrice, RoomInv, RoomTypeOK, PriceInHand, TypeInv, RestTyped
    <3>3. rmsg[c] \in [type : {"price"}, bid : HighestBid]
      BY <3>2 DEF Message
    <3>4. highestBid.price \in Price
      BY <3>2 DEF HighestBid
    <3>5. rmsg[c].bid \in [sender : User \cup {Recovered}, price : Price]
      BY <3>2, <3>3 DEF HighestBid
    <3>6. m \in Message
      BY <3>3, <3>4, <3>5 DEF Message, HighestBid
    <3>. QED
      BY <1>1, <1>2, <3>1, <3>6, MoveTyped
  <2>8. ASSUME NEW request \in Requests, Receive(c, request) PROVE RoomInv'
    <3>1. UNCHANGED <<conns, wp, vars>>
      BY <2>8 DEF Receive
    <3>2. highestBid \in HighestBid
      BY DEF TypeInv, RestTyped
    <3>3. UNCHANGED rmsg \/ \E m \in Message : rmsg' = [rmsg EXCEPT ![c] = m]
      BY <2>8, <3>2, MessagesTyped DEF Receive
    <3>4. CASE \E label \in {"bid", "leave", "pong", "reply"} : Goto(c, label)
      BY <1>1, <1>2, <3>1, <3>3, <3>4, MoveTyped
    <3>5. CASE /\ highestBid # NoBid
               /\ Goto(c, "price")
               /\ rmsg' = [rmsg EXCEPT ![c] = PriceMsg(highestBid)]
      <4>1. RoomTypeOK'
        BY <3>1, <3>2, <3>5, MessagesTyped DEF RoomInv, RoomTypeOK, Goto, vars, connVars
      <4>2. PriceInHand'
        BY <3>1, <3>5 DEF RoomInv, RoomTypeOK, PriceInHand, Goto, PriceMsg, vars, bidVars
      <4>. QED
        BY <4>1, <4>2 DEF RoomInv
    <3>. QED
      BY <2>8, <3>4, <3>5 DEF Receive
  <2>. QED
    BY <1>5, <2>1, <2>2, <2>3, <2>4, <2>5, <2>6, <2>7, <2>8 DEF ReadPump, Peer
<1>6. CASE RunHub \/ RunServer \/ UNCHANGED roomVars
  BY <1>4, <1>6 DEF RunHub, RunServer, roomVars, pumpVars
<1>. QED
  BY <1>2, <1>5, <1>6 DEF RoomNext

LEMMA RoomInvHolds == RoomSpec => [](RoomInv /\ TypeInv)
<1>1. RoomInit => RoomInv /\ TypeInv
  BY InitTyped, MessagesTyped DEF RoomInit, RoomInv, RoomTypeOK, PriceInHand
<1>. QED
  BY <1>1, RoomStepTyped, PTL DEF RoomSpec

\* The pumps keep their types, and only a connection that was registered is
\* ever kept open.
THEOREM RoomTypeCorrect == RoomSpec => []RoomTypeOK
<1>1. RoomInv => RoomTypeOK
  BY DEF RoomInv
<1>. QED
  BY <1>1, RoomInvHolds, PTL

\* Nothing that JoinAuction, ReadPump and WritePump do goes beyond what module
\* Hub grants its environment.
THEOREM RoomImplementsHub == RoomSpec => ImplementsHub
<1>1. RoomInit => Init
  BY DEF RoomInit
<1>2. RoomInv /\ [RoomNext]_roomVars => [Next]_vars
  BY RoomStepIsHubStep DEF RoomInv
<1>. QED
  BY <1>1, <1>2, RoomInvHolds, PTL DEF RoomSpec, Spec, ImplementsHub

\* So the real connections of a hub cannot make it break the auction's promise,
\* nor close a channel twice.
COROLLARY RoomKeepsPromises == RoomSpec => ImplementsAuction /\ []ChannelDiscipline
<1>1. RoomSpec => Spec
  BY RoomImplementsHub DEF ImplementsHub
<1>. QED
  BY <1>1, HubImplementsAuction, ChannelsKept, PTL

-----------------------------------------------------------------------------
(* Peers that do not ask for the price.                                      *)

\* The requests that are answered with a price are those for the auction's data
\* and for the current bid.
QuietRequests == Requests \cap {"get_auction_data", "current_bid"} = {}

\* No ReadPump has a price in its hands.
QuietPumps == \A c \in Client : ~ShowsPrice(rmsg[c])

\* Without such requests no pump gets a price to answer with, and what the pumps
\* do to the hub is what connections do that ask for none.
LEMMA QuietRoomStep ==
  ASSUME QuietRequests, RoomInv, QuietPumps, [RoomNext]_roomVars
  PROVE  [QuietNext]_vars /\ QuietPumps'
<1>a. ~ShowsPrice(Notice) /\ ~ShowsPrice(ErrorMsg)
  BY DEF ShowsPrice, Notice, ErrorMsg
<1>b. RoomTypeOK /\ \A c \in Client : rmsg[c] \in Message
  BY DEF RoomInv, RoomTypeOK
<1>1. CASE UNCHANGED roomVars
  BY <1>1 DEF roomVars, pumpVars, QuietPumps
<1>2. CASE RunHub \/ RunServer
  BY <1>2 DEF RunHub, RunServer, pumpVars, QuietPumps, QuietNext, HubStep
<1>3. ASSUME NEW c \in Client, ReadPump(c) \/ WritePump(c) \/ Peer(c)
      PROVE  [QuietNext]_vars /\ QuietPumps'
  <2>1. CASE CheckContext(c) \/ ReadFails(c) \/ RefuseJoin(c) \/ ConnectionBreaks(c)
    BY <2>1 DEF CheckContext, ReadFails, RefuseJoin, ConnectionBreaks, QuietPumps
  <2>2. CASE ReadPrice(c)
    BY <2>2 DEF ReadPrice, RoomInv, PriceInHand, QuietPumps, ShowsPrice
  <2>3. CASE Answer(c)
    <3>1. [QuietNext]_vars
      BY <1>b, <2>3 DEF Answer, QuietPumps, QuietNext, QuietConnectionStep
    <3>2. rmsg' = [rmsg EXCEPT ![c] = Notice]
      BY <2>3 DEF Answer, AfterReply
    <3>. QED
      BY <1>a, <1>b, <3>1, <3>2 DEF QuietPumps, RoomTypeOK
  <2>4. CASE ForwardBid(c)
    <3>1. [QuietNext]_vars
      BY <2>4 DEF ForwardBid, QuietNext, QuietConnectionStep
    <3>2. rmsg' = rmsg \/ rmsg' = [rmsg EXCEPT ![c] = ErrorMsg]
      BY <2>4 DEF ForwardBid
    <3>. QED
      BY <1>a, <1>b, <3>1, <3>2 DEF QuietPumps, RoomTypeOK
  <2>5. CASE Leave(c) \/ ExitReadPump(c) \/ Join(c)
    BY <2>5 DEF Leave, ExitReadPump, Join, QuietPumps, QuietNext, QuietConnectionStep
  <2>6. CASE WritePump(c)
    BY <2>6 DEF WritePump, Write, ExitWritePump, pumpVars, QuietPumps, QuietNext,
       QuietConnectionStep
  <2>7. ASSUME NEW request \in Requests, Receive(c, request)
        PROVE  [QuietNext]_vars /\ QuietPumps'
    <3>1. request \notin {"get_auction_data", "current_bid"}
      BY DEF QuietRequests
    <3>2. \/ rmsg' = rmsg
          \/ rmsg' = [rmsg EXCEPT ![c] = Notice]
          \/ rmsg' = [rmsg EXCEPT ![c] = ErrorMsg]
      BY <2>7, <3>1 DEF Receive
    <3>3. UNCHANGED vars
      BY <2>7 DEF Receive
    <3>. QED
      BY <1>a, <1>b, <3>2, <3>3 DEF QuietPumps, RoomTypeOK
  <2>. QED
    BY <1>3, <2>1, <2>2, <2>3, <2>4, <2>5, <2>6, <2>7 DEF ReadPump, Peer
<1>. QED
  BY <1>1, <1>2, <1>3 DEF RoomNext

LEMMA QuietRoomInvHolds ==
  ASSUME QuietRequests
  PROVE  RoomSpec => [](RoomInv /\ TypeInv /\ QuietPumps /\ InformedInv /\ OrderInv)
<1>. DEFINE Inv == RoomInv /\ TypeInv /\ QuietPumps /\ InformedInv /\ OrderInv
<1>1. RoomInit => QuietPumps /\ InformedInv /\ OrderInv
  BY InitInformed, InitOrdered DEF RoomInit, QuietPumps, ShowsPrice, Notice
<1>2. Inv /\ TypeInv' /\ [RoomNext]_roomVars
        => QuietPumps' /\ InformedInv' /\ OrderInv'
  BY QuietRoomStep, QuietStepInforms, QuietStepKeepsOrder
<1>. QED
  BY <1>1, <1>2, RoomInvHolds, PTL DEF RoomSpec

\* As long as no peer asks for it, the price a connection is shown never falls:
\* whatever the pumps' speed, auction data, current bid and updates reach it in
\* the order in which the hub came to them.
THEOREM PricesRise ==
  ASSUME QuietRequests
  PROVE  RoomSpec => ShownRises
<1>1. /\ RoomInv /\ TypeInv /\ QuietPumps /\ InformedInv /\ OrderInv
      /\ TypeInv'
      /\ [RoomNext]_roomVars
      => [\A c \in Client :
           CurrentPrice(StartingPrice, shown'[c]) >= CurrentPrice(StartingPrice, shown[c])]_shown
  <2>. SUFFICES ASSUME RoomInv, TypeInv, TypeInv', QuietPumps, OrderInv, [RoomNext]_roomVars,
                       NEW c \in Client
                PROVE  CurrentPrice(StartingPrice, shown'[c])
                         >= CurrentPrice(StartingPrice, shown[c])
    OBVIOUS
  <2>1. PriceOf(shown[c]) <= PriceOf(shown'[c])
    BY QuietRoomStep, QuietStepKeepsOrder
  <2>. QED
    BY <2>1 DEF PriceOf
<1>. QED
  BY <1>1, QuietRoomInvHolds, PTL DEF RoomSpec, ShownRises

\* And every member of the room but the one being registered has been sent the
\* highest bid, and was sent it last.
THEOREM RoomMembersCorrect ==
  ASSUME QuietRequests
  PROVE  RoomSpec => []MembersInformed
<1>1. InformedInv => MembersInformed
  BY DEF InformedInv
<1>. QED
  BY <1>1, QuietRoomInvHolds, PTL
=============================================================================
