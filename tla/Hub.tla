--------------------------------- MODULE Hub ---------------------------------
(***************************************************************************)
(* One auction's hub: the goroutine Hub.Run with its three channels, the   *)
(* goroutines it spawns for the database, and Hub.Cancel, which another    *)
(* goroutine runs at any point.  Connections appear as the environment     *)
(* that may use the channels at any time, in any order; module AuctionRoom *)
(* replaces it by the pumps each connection really runs.                   *)
(*                                                                         *)
(* One action is one stretch of the hub goroutine that no other goroutine  *)
(* can observe half done: a critical section of h.mu, or one send with a   *)
(* timeout.  Only the hub goroutine writes Clients and HighestBid.         *)
(***************************************************************************)
EXTENDS BidRules, Sequences, FiniteSets

CONSTANTS
  Client,          \* the connections that may ever join this hub
  UserOf,          \* the user each one is authenticated as (Client.ID)
  SenderIDs,       \* the senders each one names in its bids
  NoClient,
  RegisterCap,     \* capacity of Register, 10 in the code
  UnregisterCap,   \* capacity of Unregister, 10 in the code
  BidCap,          \* capacity of Bid, 100 in the code
  SendCap,         \* capacity of a client's Send, 256 in the code
  Reply,           \* what a connection may put in its own Send channel
  MaxBids          \* bound: bids submitted in one behaviour

VARIABLES
  isActive,        \* h.IsActive
  ctxDone,         \* h.Ctx has been cancelled
  ended,           \* time.Now().After(h.EndTime)
  register, unregister, bidCh,   \* the channels, oldest element first
  clients,         \* h.Clients
  send,            \* the contents of each Client.Send
  closed,          \* the clients whose Send channel is closed
  highestBid,      \* h.HighestBid
  bidHistory,      \* h.BidHistory, with the verdict (a stamped Timestamp)
  hpc,             \* where the hub goroutine is
  hcur,            \* the client being registered
  htodo,           \* the clients broadcastToOthers has still to reach
  counts,          \* the counts given to updateClientCountInDB goroutines
  inserts,         \* the bids given to AddBid goroutines
  joined,          \* the connections whose Register has been sent
  shown,           \* the last price each WritePump has taken from Send
  panic            \* "none", or why the process died

hubVars == <<isActive, ctxDone, ended>>
chanVars == <<register, unregister, bidCh>>
memberVars == <<clients, closed, panic>>
bidVars == <<highestBid, bidHistory>>
pcVars == <<hpc, hcur, htodo>>
spawnVars == <<counts, inserts>>
connVars == <<joined, shown>>

vars == <<hubVars, chanVars, memberVars, send, bidVars, pcVars, spawnVars,
          connVars>>

-----------------------------------------------------------------------------
(* Messages.  A bid_update and an auction_data carry the highest bid; of the *)
(* others only a rejection is told apart from the rest (user_joined,         *)
(* user_left, pong, count, success).                                         *)

Message == [type : {"price"}, bid : HighestBid]
             \cup [type : {"error", "notice"}, bid : {NoBid}]

PriceMsg(b) == [type |-> "price", bid |-> b]
ErrorMsg == [type |-> "error", bid |-> NoBid]
Notice == [type |-> "notice", bid |-> NoBid]

ShowsPrice(m) == m.type = "price"

ASSUME HubAssumption ==
  /\ IsFiniteSet(Client)
  /\ UserOf \in [Client -> User]
  /\ SenderIDs \in [Client -> SUBSET User]
  /\ NoClient \notin Client
  /\ RegisterCap \in Nat \ {0}
  /\ UnregisterCap \in Nat \ {0}
  /\ BidCap \in Nat \ {0}
  /\ SendCap \in Nat \ {0}
  /\ MaxBids \in Nat
  /\ Reply \subseteq Message

Init ==
  /\ isActive = TRUE
  /\ ctxDone = FALSE
  /\ ended = FALSE
  /\ register = <<>>
  /\ unregister = <<>>
  /\ bidCh = <<>>
  /\ clients = {}
  /\ send = [c \in Client |-> <<>>]
  /\ closed = {}
  /\ highestBid \in InitialBid
  /\ bidHistory = <<>>
  /\ hpc = "select"
  /\ hcur = NoClient
  /\ htodo = {}
  /\ counts = <<>>
  /\ inserts = {}
  /\ joined = {}
  /\ shown = [c \in Client |-> NoBid]
  /\ panic = "none"

-----------------------------------------------------------------------------
(* Sending to clients and removing them.                                     *)

\* Faulty variant: one message too many.
FullTooLate(c) == Len(send[c]) > SendCap

Full(c) == Len(send[c]) >= SendCap

\* The Send channels after m has been put in those of S.
Give(S, m) == [c \in Client |-> IF c \in S THEN Append(send[c], m) ELSE send[c]]

\* Faulty variant: the membership test is dropped, so a client may be closed
\* a second time.
removeWithoutTest(S) ==
  /\ clients' = clients \ S
  /\ closed' = closed \cup S
  /\ panic' = IF S \cap closed # {} THEN "close" ELSE panic

\* removeClientUnsafe, for each client of S: forget it and close its channel.
removeClientUnsafe(S) ==
  /\ clients' = clients \ S
  /\ closed' = closed \cup (S \cap clients)
  /\ panic' = IF S \cap clients \cap closed # {} THEN "close" ELSE panic

\* Faulty variant: a client whose channel is full keeps its place and just
\* misses the message.
broadcastSkipping(m) ==
  /\ send' = Give({c \in clients : ~Full(c)}, m)
  /\ UNCHANGED memberVars

\* broadcastUnsafe: every client gets m at once; whose channel is full is
\* removed instead.
broadcastUnsafe(m) ==
  LET slow == {c \in clients : Full(c)}
  IN  IF clients \cap closed # {}
      THEN panic' = "broadcast" /\ UNCHANGED <<send, clients, closed>>
      ELSE send' = Give(clients \ slow, m) /\ removeClientUnsafe(slow)

\* Faulty variant: the hub waits for room without a timeout.
sendWaiting(c, m, why) ==
  IF c \in closed
  THEN panic' = why /\ UNCHANGED <<send, clients, closed>>
  ELSE ~Full(c) /\ send' = Give({c}, m) /\ UNCHANGED memberVars

\* One send of the hub goroutine to one client: it goes through when there is
\* room, and when there is none (at once in sendToBidderUnsafe, after a few
\* seconds in broadcastToOthers and sendToClientWithTimeout) the client is
\* removed.  Sending on a closed channel panics; why names the sender.
sendOrRemove(c, m, why) ==
  IF c \in closed
  THEN panic' = why /\ UNCHANGED <<send, clients, closed>>
  ELSE \/ ~Full(c) /\ send' = Give({c}, m) /\ UNCHANGED memberVars
       \/ Full(c) /\ removeClientUnsafe({c}) /\ UNCHANGED send

\* sendToBidderUnsafe: one client with the bidder's ID, whichever comes first.
sendToBidderUnsafe(m, user) ==
  LET his == {c \in clients : UserOf[c] = user}
  IN  IF his = {}
      THEN UNCHANGED <<send, memberVars>>
      ELSE \E c \in his : sendOrRemove(c, m, "broadcast")

\* go updateClientCountInDB(len(h.Clients)), with the value of Clients given.
spawnCountUpdate(members) == counts' = Append(counts, Cardinality(members))

-----------------------------------------------------------------------------
(* The hub goroutine.                                                        *)

Alive == panic = "none"

Selecting == Alive /\ hpc = "select"

\* handleClientRegistration up to the snapshot that broadcastToOthers takes.
\* The snapshot leaves out every connection of the same user.
handleClientRegistration ==
  /\ Selecting
  /\ register # <<>>
  /\ LET c == Head(register)
     IN  /\ clients' = clients \cup {c}
         /\ hcur' = c
         /\ htodo' = {d \in clients : UserOf[d] # UserOf[c]}
         /\ spawnCountUpdate(clients \cup {c})
  /\ register' = Tail(register)
  /\ hpc' = "join"
  /\ UNCHANGED <<hubVars, unregister, bidCh, send, closed, panic, bidVars,
                 inserts, connVars>>

\* handleClientUnregistration: a client that is not a member is ignored.
handleClientUnregistration ==
  /\ Selecting
  /\ unregister # <<>>
  /\ unregister' = Tail(unregister)
  /\ LET c == Head(unregister)
         others == {d \in clients \ {c} : UserOf[d] # UserOf[c]}
     IN  /\ removeClientUnsafe({c})
         /\ IF c \in clients
            THEN /\ spawnCountUpdate(clients \ {c})
                 /\ htodo' = others
                 /\ hpc' = IF others = {} THEN "select" ELSE "leave"
            ELSE UNCHANGED <<htodo, hpc, counts>>
  /\ UNCHANGED <<hubVars, register, bidCh, send, bidVars, hcur, inserts,
                 connVars>>

\* broadcastToOthers: one client of the snapshot, in no particular order.
broadcastToOthers(d) ==
  /\ Alive
  /\ d \in htodo
  /\ htodo' = htodo \ {d}
  /\ \/ /\ hpc = "join"
        /\ sendOrRemove(d, Notice, "broadcast")
        /\ hpc' = hpc
     \/ /\ hpc = "leave"
        /\ sendOrRemove(d, Notice, "broadcast")
        /\ hpc' = IF htodo = {d} THEN "select" ELSE "leave"
  /\ UNCHANGED <<hubVars, chanVars, bidVars, hcur, spawnVars, connVars>>

\* sendAuctionDataToClient; after it comes the current bid, if there is one.
sendAuctionDataToClient ==
  /\ Alive
  /\ hpc = "join"
  /\ htodo = {}
  /\ sendOrRemove(hcur, PriceMsg(highestBid), "join")
  /\ IF highestBid = NoBid
     THEN hpc' = "select" /\ hcur' = NoClient
     ELSE hpc' = "joinBid" /\ hcur' = hcur
  /\ UNCHANGED <<hubVars, chanVars, bidVars, htodo, spawnVars, connVars>>

\* The bid_update that ends a registration.  It is sent even when the send
\* before it timed out and closed the channel.
sendCurrentBidToClient ==
  /\ Alive
  /\ hpc = "joinBid"
  /\ sendOrRemove(hcur, PriceMsg(highestBid), "join")
  /\ hpc' = "select"
  /\ hcur' = NoClient
  /\ UNCHANGED <<hubVars, chanVars, bidVars, htodo, spawnVars, connVars>>

IsOpen == isActive /\ ~ended

\* Both ways through handleBid put the bid in the history.
addBidToHistory(b, verdict) ==
  bidHistory' = Append(bidHistory, [bid |-> b, accepted |-> verdict])

\* handleBid on a bid that validateBid refuses.
rejectBid ==
  /\ Selecting
  /\ bidCh # <<>>
  /\ ~validateBid(Head(bidCh), StartingPrice, highestBid, Increment, IsOpen)
  /\ bidCh' = Tail(bidCh)
  /\ addBidToHistory(Head(bidCh), FALSE)
  /\ sendToBidderUnsafe(ErrorMsg, Head(bidCh).sender)
  /\ UNCHANGED <<hubVars, register, unregister, highestBid, pcVars, spawnVars, connVars>>

\* handleBid on a valid bid: record it, spawn AddBid, tell every client.
acceptBid ==
  /\ Selecting
  /\ bidCh # <<>>
  /\ validateBid(Head(bidCh), StartingPrice, highestBid, Increment, IsOpen)
  /\ bidCh' = Tail(bidCh)
  /\ highestBid' = Head(bidCh)
  /\ addBidToHistory(Head(bidCh), TRUE)
  /\ inserts' = inserts \cup {Head(bidCh)}
  /\ broadcastUnsafe(PriceMsg(Head(bidCh)))
  /\ UNCHANGED <<hubVars, register, unregister, pcVars, counts, connVars>>

\* Faulty variant: the deferred closeAllClients is missing.
stopOnly ==
  /\ Selecting
  /\ ctxDone
  /\ hpc' = "stopped"
  /\ UNCHANGED <<hubVars, chanVars, memberVars, send, bidVars, hcur, htodo, spawnVars,
                 connVars>>

\* Run's <-h.Ctx.Done() case with the deferred closeAllClients.  What is left
\* in the three channels stays there.
closeAllClients ==
  /\ Selecting
  /\ ctxDone
  /\ hpc' = "stopped"
  /\ clients' = {}
  /\ closed' = closed \cup clients
  /\ panic' = IF clients \cap closed # {} THEN "close" ELSE panic
  /\ UNCHANGED <<hubVars, chanVars, send, bidVars, hcur, htodo, spawnVars, joined, shown>>

-----------------------------------------------------------------------------
(* Other goroutines of the server.                                           *)

\* Hub.Cancel: first the flag, under the lock ...
CancelFlag ==
  /\ Alive
  /\ isActive
  /\ isActive' = FALSE
  /\ UNCHANGED <<ctxDone, ended, chanVars, memberVars, send, bidVars, pcVars,
                 spawnVars, connVars>>

\* ... then the context.
CancelContext ==
  /\ Alive
  /\ ~isActive
  /\ ~ctxDone
  /\ ctxDone' = TRUE
  /\ UNCHANGED <<isActive, ended, chanVars, memberVars, send, bidVars, pcVars,
                 spawnVars, connVars>>

EndTimePasses ==
  /\ Alive
  /\ ~ended
  /\ ended' = TRUE
  /\ UNCHANGED <<isActive, ctxDone, chanVars, memberVars, send, bidVars, pcVars,
                 spawnVars, connVars>>

-----------------------------------------------------------------------------
(* What connections may do to the hub.                                       *)

\* JoinAuction: each connection makes one Client and registers it once.
Register(c) ==
  /\ Alive
  /\ c \notin joined
  /\ Len(register) < RegisterCap
  /\ register' = Append(register, c)
  /\ joined' = joined \cup {c}
  /\ UNCHANGED <<hubVars, unregister, bidCh, memberVars, send, bidVars, pcVars,
                 spawnVars, shown>>

\* A leave request, or the end of ReadPump.
Unregister(c) ==
  /\ Alive
  /\ c \in joined
  /\ Len(unregister) < UnregisterCap
  /\ unregister' = Append(unregister, c)
  /\ UNCHANGED <<hubVars, register, bidCh, memberVars, send, bidVars, pcVars,
                 spawnVars, connVars>>

\* A bid carries the sender its message names, which nothing compares with
\* Client.ID.
BidsOf(c) == [sender : SenderIDs[c], price : Price]

SubmitBid(c, b) ==
  /\ Alive
  /\ c \in joined
  /\ Len(bidCh) < BidCap
  /\ Len(bidHistory) + Len(bidCh) < MaxBids
  /\ bidCh' = Append(bidCh, b)
  /\ UNCHANGED <<hubVars, register, unregister, memberVars, send, bidVars, pcVars,
                 spawnVars, connVars>>

\* ReadPump answers through the client's own Send channel; when the hub has
\* closed it, the send panics and takes the process down.
SendReply(c, m) ==
  /\ Alive
  /\ c \in joined
  /\ \/ /\ c \notin closed
        /\ ~Full(c)
        /\ send' = Give({c}, m)
        /\ UNCHANGED panic
     \/ /\ c \in closed
        /\ panic' = "reply"
        /\ UNCHANGED send
  /\ UNCHANGED <<hubVars, chanVars, clients, closed, bidVars, pcVars, spawnVars, connVars>>

\* WritePump takes the oldest message; it reaches an open connection.
WriteMessage(c) ==
  /\ Alive
  /\ send[c] # <<>>
  /\ send' = [send EXCEPT ![c] = Tail(@)]
  /\ shown' = IF ShowsPrice(Head(send[c]))
              THEN [shown EXCEPT ![c] = Head(send[c]).bid]
              ELSE shown
  /\ UNCHANGED <<hubVars, chanVars, memberVars, bidVars, pcVars, spawnVars, joined>>

-----------------------------------------------------------------------------

HubWork ==
  \/ handleClientRegistration
  \/ handleClientUnregistration
  \/ \E d \in Client : broadcastToOthers(d)
  \/ sendAuctionDataToClient
  \/ sendCurrentBidToClient
  \/ rejectBid
  \/ acceptBid

HubStep == HubWork \/ closeAllClients

ServerStep == CancelFlag \/ CancelContext \/ EndTimePasses

ConnectionStep ==
  \E c \in Client :
    \/ Register(c)
    \/ Unregister(c)
    \/ \E b \in BidsOf(c) : SubmitBid(c, b)
    \/ \E m \in Reply : SendReply(c, m)
    \/ WriteMessage(c)

Next == HubStep \/ ServerStep \/ ConnectionStep

Spec == Init /\ [][Next]_vars

\* The hub goroutine always gets to run, and none of its sends waits for ever.
\* Go's select picks evenly among the cases that are ready, so a case that is
\* ready again and again is taken in the end.
Fairness ==
  /\ WF_vars(HubStep)
  /\ SF_vars(closeAllClients)
  /\ SF_vars(handleClientRegistration)
  /\ SF_vars(handleClientUnregistration)
  /\ SF_vars(rejectBid \/ acceptBid)

FairSpec == Spec /\ Fairness

-----------------------------------------------------------------------------
(* Properties.                                                               *)

Panics == {"none", "close", "broadcast", "join", "reply"}

\* The types, and no channel beyond its capacity.
TypeOK ==
  /\ isActive \in BOOLEAN
  /\ ctxDone \in BOOLEAN
  /\ ended \in BOOLEAN
  /\ register \in Seq(Client) /\ Len(register) <= RegisterCap
  /\ unregister \in Seq(Client) /\ Len(unregister) <= UnregisterCap
  /\ bidCh \in Seq(Bid) /\ Len(bidCh) <= BidCap
  /\ clients \subseteq Client
  /\ send \in [Client -> Seq(Message)]
  /\ \A c \in Client : Len(send[c]) <= SendCap
  /\ closed \subseteq Client
  /\ highestBid \in HighestBid
  /\ bidHistory \in Seq([bid : Bid, accepted : BOOLEAN])
  /\ hpc \in {"select", "join", "joinBid", "leave", "stopped"}
  /\ hcur \in Client \cup {NoClient}
  /\ htodo \subseteq Client
  /\ counts \in Seq(0..Cardinality(Client))
  /\ inserts \subseteq Bid
  /\ joined \subseteq Client
  /\ shown \in [Client -> HighestBid]
  /\ panic \in Panics

\* Whatever connections do and whenever it is cancelled, the hub never closes
\* a Send channel twice and never broadcasts on one it has closed: the map
\* h.Clients holds exactly the open ones (hub.go: removeClientUnsafe,
\* broadcastToOthers over its stale snapshot, closeAllClients).
ChannelDiscipline == panic \notin {"close", "broadcast"}

\* Why ChannelDiscipline holds: no member's channel is closed, the clients
\* that a broadcast has still to reach are members, and a client waiting in
\* Register has neither been a member nor been closed, and waits there once.
ChannelInv ==
  /\ clients \cap closed = {}
  /\ clients \cup closed \subseteq joined
  /\ htodo \subseteq clients
  /\ hpc \notin {"join", "leave"} => htodo = {}
  /\ hpc \in {"join", "joinBid"} => hcur \in Client
  /\ \A i \in DOMAIN register : register[i] \in joined \ (clients \cup closed)
  /\ \A i, j \in DOMAIN register : register[i] = register[j] => i = j
  /\ ChannelDiscipline

Accepted == {i \in DOMAIN bidHistory : bidHistory[i].accepted}

\* The accepted bids of the history rise by at least the increment, whatever
\* was rejected in between, and the last of them is the highest bid.
HistoryRises ==
  /\ \A i, j \in Accepted :
       i < j => bidHistory[j].bid.price >= bidHistory[i].bid.price + Increment
  /\ \A i \in Accepted :
       (\A j \in Accepted : j <= i) => bidHistory[i].bid = highestBid

\* Why HistoryRises holds: no accepted bid is above the highest.
HistoryInv ==
  /\ HistoryRises
  /\ \A i \in Accepted :
       highestBid # NoBid /\ bidHistory[i].bid.price <= highestBid.price

\* The last price among the messages of a channel, or the one shown before them
\* when they carry none, is that of b.
LastPrice(channel, before, b) ==
  LET prices == {i \in DOMAIN channel : ShowsPrice(channel[i])}
  IN  \/ prices = {} /\ before = b
      \/ \E i \in prices : channel[i].bid = b /\ \A j \in prices : j <= i

\* A client that is still a member of the auction has been sent the current
\* highest bid: whoever missed an update is no longer a member.  Only the
\* client being registered is excepted (hub.go: broadcastUnsafe,
\* handleClientRegistration).
MembersInformed ==
  Alive => \A c \in clients \ {hcur} : LastPrice(send[c], shown[c], highestBid)

Ledger == {bidHistory[i].bid : i \in Accepted}

\* The hub keeps the promise of module Auction.
A == INSTANCE Auction WITH best <- highestBid, ledger <- Ledger, open <- IsOpen

ImplementsAuction == A!Spec

\* A cancelled hub stops, and the channels of all its clients get closed.
CancelledHubStops ==
  ctxDone ~> (~Alive \/ (hpc = "stopped" /\ clients = {}))

\* A connection that got into the Register channel is served, unless the hub
\* is cancelled first.
JoinsServed ==
  \A c \in Client :
    (\E i \in DOMAIN register : register[i] = c)
      ~> (~Alive \/ ctxDone \/ \A i \in DOMAIN register : register[i] # c)

\* Every bid that reached the Bid channel gets its verdict, unless the hub is
\* cancelled first.
BidsJudged ==
  \A k \in 1..MaxBids :
    Len(bidHistory) + Len(bidCh) >= k ~> (~Alive \/ ctxDone \/ Len(bidHistory) >= k)
=============================================================================
