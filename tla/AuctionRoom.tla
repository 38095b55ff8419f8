----------------------------- MODULE AuctionRoom -----------------------------
(***************************************************************************)
(* A hub with the connections that really use it: JoinAuction, which makes *)
(* a Client and registers it, and the two goroutines it starts for each,   *)
(* ReadPump and WritePump.                                                 *)
(*                                                                         *)
(* Every send on a channel of the hub or on Client.Send is one action of   *)
(* module Hub, joined here with the step of the pump that makes it.        *)
(***************************************************************************)
EXTENDS Hub

CONSTANT
  Requests         \* what the peers of a run send

\* The kinds of message ReadPump tells apart.  "invalid" stands for every
\* message it answers with an error: malformed, unknown, for another auction,
\* or a bid outside 1..MaxBidAmount.
ASSUME RequestsAssumption ==
  Requests \subseteq {"join", "leave", "get_auction_data", "current_bid",
                      "place_bid", "ping", "invalid"}

\* A connection may be answered with any message.
ASSUME ReplyAssumption == Reply = Message

VARIABLES
  conns,           \* the websocket connections that still carry messages
  rp,              \* where each ReadPump is
  rmsg,            \* the message each ReadPump is about to send
  wp               \* where each WritePump is

pumpVars == <<conns, rp, rmsg, wp>>

roomVars == <<vars, pumpVars>>

RoomInit ==
  /\ Init
  /\ conns = {}
  /\ rp = [c \in Client |-> "none"]
  /\ rmsg = [c \in Client |-> Notice]
  /\ wp = [c \in Client |-> "none"]

Goto(c, label) == rp' = [rp EXCEPT ![c] = label]

-----------------------------------------------------------------------------
(* JoinAuction.                                                              *)

\* The client is in the Register channel: both pumps start.
Join(c) ==
  /\ rp[c] = "none"
  /\ Register(c)
  /\ conns' = conns \cup {c}
  /\ Goto(c, "top")
  /\ wp' = [wp EXCEPT ![c] = "run"]
  /\ UNCHANGED rmsg

\* Faulty variant: the connection is left open.
RefuseJoinOpen(c) ==
  /\ Alive
  /\ rp[c] = "none"
  /\ Len(register) >= RegisterCap
  /\ Goto(c, "refused")
  /\ conns' = conns \cup {c}
  /\ UNCHANGED <<vars, rmsg, wp>>

\* No room in Register for five seconds: the connection is closed unused.
RefuseJoin(c) ==
  /\ Alive
  /\ rp[c] = "none"
  /\ Len(register) >= RegisterCap
  /\ Goto(c, "refused")
  /\ UNCHANGED <<vars, conns, rmsg, wp>>

-----------------------------------------------------------------------------
(* ReadPump.                                                                 *)

\* The test of the context at the top of the loop.
CheckContext(c) ==
  /\ Alive
  /\ rp[c] = "top"
  /\ Goto(c, IF ctxDone THEN "exit" ELSE "read")
  /\ UNCHANGED <<vars, conns, rmsg, wp>>

\* ReadMessage fails once the connection is gone, from whichever side.
ReadFails(c) ==
  /\ Alive
  /\ rp[c] = "read"
  /\ c \notin conns
  /\ Goto(c, "exit")
  /\ UNCHANGED <<vars, conns, rmsg, wp>>

\* The bids that are still in some ReadPump's hands.
BidsInHand == Cardinality({c \in Client : rp[c] = "bid"})

\* ReadMessage returns a request, and handleMessage turns to it.  The data of
\* get_auction_data is read here, under the lock; sendCurrentBidAndCount takes
\* the bidder here and the price in ReadPrice, without the lock.
Receive(c, request) ==
  /\ Alive
  /\ rp[c] = "read"
  /\ c \in conns
  /\ \/ /\ request = "place_bid"
        /\ Len(bidHistory) + Len(bidCh) + BidsInHand < MaxBids
        /\ Goto(c, "bid")
        /\ UNCHANGED rmsg
     \/ /\ request = "leave"
        /\ Goto(c, "leave")
        /\ UNCHANGED rmsg
     \/ /\ request = "ping"
        /\ Goto(c, "pong")
        /\ rmsg' = [rmsg EXCEPT ![c] = Notice]
     \/ /\ request = "join"
        /\ Goto(c, "reply")
        /\ rmsg' = [rmsg EXCEPT ![c] = Notice]
     \/ /\ request = "invalid"
        /\ Goto(c, "reply")
        /\ rmsg' = [rmsg EXCEPT ![c] = ErrorMsg]
     \/ /\ request = "get_auction_data"
        /\ Goto(c, "reply")
        /\ rmsg' = [rmsg EXCEPT ![c] = PriceMsg(highestBid)]
     \/ /\ request = "current_bid"
        /\ IF highestBid = NoBid
           THEN Goto(c, "reply") /\ rmsg' = [rmsg EXCEPT ![c] = Notice]
           ELSE Goto(c, "price") /\ rmsg' = [rmsg EXCEPT ![c] = PriceMsg(highestBid)]
  /\ UNCHANGED <<vars, conns, wp>>

\* The second unlocked look at h.HighestBid in sendCurrentBidAndCount.
ReadPrice(c) ==
  /\ Alive
  /\ rp[c] = "price"
  /\ rmsg' = [rmsg EXCEPT ![c].bid.price = highestBid.price]
  /\ Goto(c, "bidReply")
  /\ UNCHANGED <<vars, conns, wp>>

\* Where ReadPump goes after an answer: the count follows the current bid.
AfterReply(c) ==
  /\ Goto(c, IF rp[c] = "bidReply" THEN "reply" ELSE "top")
  /\ rmsg' = [rmsg EXCEPT ![c] = Notice]

\* An answer goes into Send, or is dropped after a while without room.  Only a
\* pong also gives up when the context is cancelled.
Answer(c) ==
  /\ rp[c] \in {"reply", "bidReply", "pong"}
  /\ \/ SendReply(c, rmsg[c])
     \/ /\ Alive
        /\ c \notin closed
        /\ Full(c)
        /\ UNCHANGED vars
     \/ /\ Alive
        /\ rp[c] = "pong"
        /\ ctxDone
        /\ UNCHANGED vars
  /\ AfterReply(c)
  /\ UNCHANGED <<conns, wp>>

\* handleBidMessage: into the Bid channel, or given up when the context is
\* cancelled, or answered with an error after five seconds without room.
ForwardBid(c) ==
  /\ rp[c] = "bid"
  /\ \/ /\ \E b \in BidsOf(c) : SubmitBid(c, b)
        /\ Goto(c, "top")
        /\ UNCHANGED rmsg
     \/ /\ Alive
        /\ ctxDone
        /\ Goto(c, "top")
        /\ UNCHANGED <<vars, rmsg>>
     \/ /\ Alive
        /\ Len(bidCh) >= BidCap
        /\ Goto(c, "reply")
        /\ rmsg' = [rmsg EXCEPT ![c] = ErrorMsg]
        /\ UNCHANGED vars
  /\ UNCHANGED <<conns, wp>>

\* Faulty variant: ReadPump takes the client out of h.Clients itself.
LeaveDirectly(c) ==
  /\ rp[c] = "leave"
  /\ Alive
  /\ removeClientUnsafe({c})
  /\ Goto(c, "top")
  /\ UNCHANGED <<hubVars, chanVars, send, bidVars, pcVars, spawnVars, connVars,
                 conns, rmsg, wp>>

\* A leave request unregisters the client; ReadPump keeps on reading.
Leave(c) ==
  /\ rp[c] = "leave"
  /\ \/ Unregister(c)
     \/ /\ Alive
        /\ ctxDone \/ Len(unregister) >= UnregisterCap
        /\ UNCHANGED vars
  /\ Goto(c, "top")
  /\ UNCHANGED <<conns, rmsg, wp>>

\* Faulty variant: ReadPump closes the connection and leaves the hub alone.
ExitReadPumpSilently(c) ==
  /\ Alive
  /\ rp[c] = "exit"
  /\ conns' = conns \ {c}
  /\ Goto(c, "done")
  /\ UNCHANGED <<vars, rmsg, wp>>

\* The deferred end of ReadPump: a plain send on Unregister, which waits as
\* long as there is no room, and then Conn.Close.
ExitReadPump(c) ==
  /\ rp[c] = "exit"
  /\ Unregister(c)
  /\ conns' = conns \ {c}
  /\ Goto(c, "done")
  /\ UNCHANGED <<rmsg, wp>>

-----------------------------------------------------------------------------
(* WritePump and the network.                                                *)

Write(c) ==
  /\ wp[c] = "run"
  /\ c \in conns
  /\ WriteMessage(c)
  /\ UNCHANGED pumpVars

\* Faulty variant: WritePump does not watch the context.
ExitWritePumpLate(c) ==
  /\ Alive
  /\ wp[c] = "run"
  /\ (c \in closed /\ send[c] = <<>>) \/ c \notin conns
  /\ wp' = [wp EXCEPT ![c] = "done"]
  /\ conns' = conns \ {c}
  /\ UNCHANGED <<vars, rp, rmsg>>

\* WritePump ends, and closes the connection: the context is cancelled, the
\* channel is closed and empty, or a write or ping fails.
ExitWritePump(c) ==
  /\ Alive
  /\ wp[c] = "run"
  /\ \/ ctxDone
     \/ c \in closed /\ send[c] = <<>>
     \/ c \notin conns
  /\ wp' = [wp EXCEPT ![c] = "done"]
  /\ conns' = conns \ {c}
  /\ UNCHANGED <<vars, rp, rmsg>>

\* The peer goes away, or stays silent past the read deadline, or takes so
\* long to read that the write deadline passes.
ConnectionBreaks(c) ==
  /\ Alive
  /\ c \in conns
  /\ conns' = conns \ {c}
  /\ UNCHANGED <<vars, rp, rmsg, wp>>

\* The hub's own steps; only closeAllClients touches the connections.
RunHub ==
  \/ HubWork /\ UNCHANGED pumpVars
  \/ closeAllClients /\ conns' = conns \ clients /\ UNCHANGED <<rp, rmsg, wp>>

RunServer == ServerStep /\ UNCHANGED pumpVars

-----------------------------------------------------------------------------

ReadPump(c) ==
  \/ CheckContext(c)
  \/ ReadFails(c)
  \/ ReadPrice(c)
  \/ Answer(c)
  \/ ForwardBid(c)
  \/ Leave(c)
  \/ ExitReadPump(c)

WritePump(c) == Write(c) \/ ExitWritePump(c)

Peer(c) ==
  \/ Join(c)
  \/ RefuseJoin(c)
  \/ \E request \in Requests : Receive(c, request)
  \/ ConnectionBreaks(c)

RoomNext ==
  \/ RunHub
  \/ RunServer
  \/ \E c \in Client : ReadPump(c) \/ WritePump(c) \/ Peer(c)

RoomSpec == RoomInit /\ [][RoomNext]_roomVars

\* Every goroutine gets to run, and every wait but the one in ExitReadPump has
\* a timeout.  The peers send what they like, or nothing.  Goroutines that wait
\* to send on a channel are served in turn, and select picks evenly among the
\* cases that are ready.
RoomFairness ==
  /\ WF_roomVars(RunHub)
  /\ SF_roomVars(RunHub /\ closeAllClients)
  /\ SF_roomVars(RunHub /\ handleClientRegistration)
  /\ SF_roomVars(RunHub /\ handleClientUnregistration)
  /\ \A c \in Client :
       /\ WF_roomVars(ReadPump(c))
       /\ SF_roomVars(ExitReadPump(c))
       /\ WF_roomVars(WritePump(c))

FairRoomSpec == RoomSpec /\ RoomFairness

-----------------------------------------------------------------------------
(* Properties.                                                               *)

\* The types; a connection that was never registered is not kept open.
RoomTypeOK ==
  /\ conns \subseteq joined
  /\ rp \in [Client -> {"none", "refused", "top", "read", "bid", "leave", "pong",
                        "reply", "price", "bidReply", "exit", "done"}]
  /\ rmsg \in [Client -> Message]
  /\ wp \in [Client -> {"none", "run", "done"}]

\* The room is a hub: nothing the pumps do goes beyond what module Hub grants
\* its environment, so every property of Hub holds of the room.
ImplementsHub == Spec

\* No goroutine ever sends on a Send channel that the hub has closed: a client
\* that is dropped or asks to leave is taken out without stopping the server
\* (client.go: the sends of ReadPump; hub.go: sendCurrentBidToClient's send
\* after one that timed out).
NoSendOnClosed == panic \notin {"reply", "join"}

\* The price a connection is shown never falls while its peer only bids: the
\* auction data, the current bid and the updates reach it in the order in which
\* the hub came to them (hub.go: handleClientRegistration, broadcastUnsafe).
ShownRises ==
  [][\A c \in Client :
       CurrentPrice(StartingPrice, shown'[c]) >= CurrentPrice(StartingPrice, shown[c])]_shown

\* A connection that breaks is taken out of the auction (client.go: the
\* deferred Unregister of ReadPump).
BrokenLeaves ==
  \A c \in Client : c \in joined /\ c \notin conns ~> (~Alive \/ c \notin clients)

\* A client that is a member when its connection breaks, and whose ReadPump has
\* still to end, is taken out of the auction.
BrokenMembersLeave ==
  \A c \in Client :
    c \in clients /\ c \notin conns /\ rp[c] # "done" ~> (~Alive \/ c \notin clients)

\* Cancelling the hub closes every connection, that of a client included whose
\* registration the hub never took (client.go: WritePump; hub.go: Cancel).
CancelClosesConnections ==
  \A c \in Client : ctxDone /\ c \in conns ~> (~Alive \/ c \notin conns)

\* Once the hub is cancelled every goroutine of its connections ends
\* (client.go: ReadPump, WritePump).
CancelEndsPumps ==
  \A c \in Client :
    ctxDone /\ c \in joined ~> (~Alive \/ (rp[c] = "done" /\ wp[c] = "done"))
=============================================================================
