----------------------------- MODULE HubManager -----------------------------
(***************************************************************************)
(* One auction through the life of the server: the handler that creates    *)
(* it, the requests to join it, the hubs that serve it one after another,  *)
(* the manager's map that should hold at most one of them, and the tables  *)
(* auctions and bids from which a lost hub is restored.                    *)
(*                                                                         *)
(* A hub is what its manager and the tables can tell of it: whether it was *)
(* cancelled, what it started from, its highest bid, its clients.  How it  *)
(* works its channels and how it stops is in module Hub.  Every critical   *)
(* section of HubManager.mu, every statement on the database and every     *)
(* verdict of a hub is one action, so requests may interleave anywhere     *)
(* between them.                                                           *)
(***************************************************************************)
EXTENDS Tables

CONSTANTS
  Joiner,        \* requests to join the auction
  MaxHubs,       \* bound: hubs made in one behaviour
  MaxBids,       \* bound: bids accepted in one behaviour
  MaxRestarts,   \* bound: restarts of the server
  Whole,         \* price steps in one whole unit of currency
  FirstStatus,   \* the status a request to create an auction may carry
  Faults         \* of "crash", "stop", "delete" and "lost insert"

VARIABLES
  phase,         \* the clock: before start_date, before end_date, after it
  status,        \* auctions.status, or "none" before the insert
  bids,          \* the auction's rows of bids, in the order of created_at
  creating,      \* where the handler CreateAuction is
  stop,          \* HubManager.Stop: "no", "stopped" is set, or "done"
  hub,           \* HubManager.hubs[auctionId], 0 for none
  made,          \* the hubs made so far are 1..made
  room,          \* the hubs
  inserts,       \* AddBid goroutines under way, each of a hub and a number in accepted
  join,          \* the requests to join
  timer,         \* the goroutine each request may leave behind
  accepted,      \* every bid a hub has accepted, in order
  restarts,      \* restarts so far
  lost           \* a hub has gone before the end of the auction

tableVars == <<status, bids>>
mapVars == <<stop, hub, made>>
requestVars == <<creating, join, timer>>
pastVars == <<accepted, restarts, lost>>

vars == <<phase, tableVars, mapVars, room, inserts, requestVars, pastVars>>

HubId == 1..MaxHubs

ASSUME HubManagerAssumption ==
  /\ MaxHubs \in Nat
  /\ MaxBids \in Nat
  /\ MaxRestarts \in Nat
  /\ Whole \in Nat \ {0}
  /\ FirstStatus \subseteq Status
  /\ Faults \subseteq {"crash", "stop", "delete", "lost insert"}

\* int(price): the cents are cut off.
Cut(price) == Whole * (price \div Whole)

\* A hub that was never made.
NoRoom ==
  [active |-> FALSE, start |-> 0, increment |-> Increment, highest |-> NoBid,
   restored |-> FALSE]

\* hub.Clients
crowd(g) == {j \in Joiner : join[j].at = "member" /\ join[j].hub = g}

Init ==
  /\ phase = "early"
  /\ status = "none"
  /\ bids = <<>>
  /\ creating = "idle"
  /\ stop = "no"
  /\ hub = 0
  /\ made = 0
  /\ room = [g \in HubId |-> NoRoom]
  /\ inserts = {}
  /\ join = [j \in Joiner |-> [at |-> "idle", price |-> 0, hub |-> 0]]
  /\ timer = [j \in Joiner |-> "none"]
  /\ accepted = <<>>
  /\ restarts = 0
  /\ lost = FALSE

Ended == phase = "over"

TimePasses ==
  /\ \/ phase = "early" /\ phase' = "open"
     \/ phase = "open" /\ phase' = "over"
  /\ UNCHANGED <<tableVars, mapVars, room, inserts, requestVars, pastVars>>

-----------------------------------------------------------------------------
(* The map of hubs.                                                          *)

\* NewHub, put in the map and started.
NewHub(start, increment, highest, restored) ==
  /\ made < MaxHubs
  /\ made' = made + 1
  /\ hub' = made + 1
  /\ room' = [room EXCEPT ![made + 1] =
                [active |-> TRUE, start |-> start, increment |-> increment,
                 highest |-> highest, restored |-> restored]]

\* Faulty variant: the hub is cancelled and stays in the map.
CancelOnly ==
  /\ room' = [room EXCEPT ![hub].active = FALSE]
  /\ UNCHANGED hub

\* hub.Cancel() and delete(m.hubs, auctionID), under the manager's lock.
CancelAndDelete ==
  /\ room' = [room EXCEPT ![hub].active = FALSE]
  /\ hub' = 0

-----------------------------------------------------------------------------
(* Creating the auction: the insert, then the hub.                           *)

\* The row has a price (CHECK starting_price > 0) and an increment, which may
\* have become zero.
AuctionAllowed == Stored(StartingPrice) \in 1..MaxStored /\ Stored(Increment) <= MaxStored

\* auctionStore.CreateAuction: refused, committed, or committed but answered
\* with an error because the categories could not be read back.
InsertAuction ==
  /\ creating = "idle"
  /\ \/ creating' = "failed" /\ UNCHANGED status
     \/ AuctionAllowed /\ creating' \in {"inserted", "failed"} /\ status' \in FirstStatus
  /\ UNCHANGED <<phase, bids, mapVars, room, inserts, join, timer, pastVars>>

\* Faulty variant: nobody looks whether the manager has been stopped.
CreateHubAnyway ==
  /\ creating = "inserted"
  /\ IF hub # 0
     THEN creating' = "failed" /\ UNCHANGED <<hub, made, room>>
     ELSE creating' = "done" /\ NewHub(StartingPrice, Increment, NoBid, FALSE)
  /\ UNCHANGED <<phase, tableVars, stop, inserts, join, timer, pastVars>>

\* HubManager.CreateHub: nil, and an error to the client, when the manager has
\* been stopped or when a request to join was faster.  The hub gets the price and
\* the increment of the request, not those of the row.
CreateHub ==
  /\ creating = "inserted"
  /\ IF stop # "no" \/ hub # 0
     THEN creating' = "failed" /\ UNCHANGED <<hub, made, room>>
     ELSE creating' = "done" /\ NewHub(StartingPrice, Increment, NoBid, FALSE)
  /\ UNCHANGED <<phase, tableVars, stop, inserts, join, timer, pastVars>>

-----------------------------------------------------------------------------
(* Joining the auction.                                                      *)

Goes(j, place) == join' = [join EXCEPT ![j].at = place]

Finds(j, g) == join' = [join EXCEPT ![j].at = "found", ![j].hub = g]

GetHub(j) ==
  /\ join[j].at = "idle"
  /\ status # "none"
  /\ IF hub # 0 THEN Finds(j, hub) ELSE Goes(j, "look")
  /\ UNCHANGED <<phase, tableVars, mapVars, room, inserts, creating, timer, pastVars>>

\* The row is read without the manager's lock; only an active auction whose
\* end has not passed is restored.
ReadAuction(j) ==
  LET row == GetAuctionByID(status, 0, bids)
  IN  /\ join[j].at = "look"
      /\ IF row.status # "ACTIVE" \/ Ended
         THEN Goes(j, "idle")
         ELSE join' = [join EXCEPT ![j].at = "restore", ![j].price = Cut(row.currentPrice)]
      /\ UNCHANGED <<phase, tableVars, mapVars, room, inserts, creating, timer, pastVars>>

\* The hub that follows on another, from the row's price and increment.
RestoreHub(price) == NewHub(price, Stored(Increment), RecoveredBid(price), TRUE)

\* Faulty variant: what GetHub saw is not looked up again under the lock.
GetOrCreateHubUnchecked(j) ==
  /\ join[j].at = "restore"
  /\ IF stop # "no"
     THEN Goes(j, "broken") /\ UNCHANGED <<hub, made, room>>
     ELSE Finds(j, made + 1) /\ RestoreHub(join[j].price)
  /\ timer' = [timer EXCEPT ![j] = "armed"]
  /\ UNCHANGED <<phase, tableVars, stop, inserts, creating, pastVars>>

\* A stopped manager returns nil, which the handler then uses: the request dies
\* there.  Whoever got here leaves a goroutine that waits for the end.
GetOrCreateHub(j) ==
  /\ join[j].at = "restore"
  /\ CASE stop # "no" -> Goes(j, "broken") /\ UNCHANGED <<hub, made, room>>
       [] stop = "no" /\ hub # 0 -> Finds(j, hub) /\ UNCHANGED <<hub, made, room>>
       [] OTHER -> /\ Finds(j, made + 1)
                   /\ RestoreHub(join[j].price)
  /\ timer' = [timer EXCEPT ![j] = "armed"]
  /\ UNCHANGED <<phase, tableVars, stop, inserts, creating, pastVars>>

\* The hub that was found may have been cancelled by now.
Register(j) ==
  /\ join[j].at = "found"
  /\ Goes(j, "waiting")
  /\ UNCHANGED <<phase, tableVars, mapVars, room, inserts, creating, timer, pastVars>>

TakeClient(j) ==
  /\ join[j].at = "waiting"
  /\ room[join[j].hub].active
  /\ Goes(j, "member")
  /\ UNCHANGED <<phase, tableVars, mapVars, room, inserts, creating, timer, pastVars>>

Leave(j) ==
  /\ join[j].at = "member"
  /\ Goes(j, "left")
  /\ UNCHANGED <<phase, tableVars, mapVars, room, inserts, creating, timer, pastVars>>

-----------------------------------------------------------------------------
(* Bids and their way into the table.                                        *)

\* A client's pumps start when it has got into Register, so that its bid may be
\* judged before its registration; and it may still be in Bid when it has left.
PlaceBid(g, b) ==
  /\ \E j \in Joiner : join[j].at \in {"waiting", "member", "left"} /\ join[j].hub = g
  /\ validateBid(b, room[g].start, room[g].highest, room[g].increment,
                 room[g].active /\ ~Ended)
  /\ Len(accepted) < MaxBids
  /\ room' = [room EXCEPT ![g].highest = b]
  /\ accepted' = Append(accepted, b)
  /\ inserts' = inserts \cup {<<g, Len(accepted')>>}
  /\ UNCHANGED <<phase, tableVars, mapVars, requestVars, restarts, lost>>

\* PlaceBid of the bid store, for the n-th bid accepted; these goroutines run in
\* no order.
InsertBid(g, n) ==
  /\ <<g, n>> \in inserts
  /\ RowAllowed(accepted[n])
  /\ bids' = Append(bids, Row(accepted[n]))
  /\ inserts' = inserts \ {<<g, n>>}
  /\ UNCHANGED <<phase, status, mapVars, room, requestVars, pastVars>>

\* The insert fails: the column does not allow its amount, the hub's context is
\* done, or the database says so.  Nobody hears of it.
LoseInsert(g, n) ==
  /\ <<g, n>> \in inserts
  /\ ~RowAllowed(accepted[n]) \/ ~room[g].active \/ "lost insert" \in Faults
  /\ inserts' = inserts \ {<<g, n>>}
  /\ UNCHANGED <<phase, tableVars, mapVars, room, requestVars, pastVars>>

-----------------------------------------------------------------------------
(* The ends of a hub.                                                        *)

\* The goroutine wakes at the end time and calls HandleAuctionEnd ...
EndTimer(j) ==
  /\ timer[j] = "armed"
  /\ Ended
  /\ timer' = [timer EXCEPT ![j] = "grace"]
  /\ UNCHANGED <<phase, tableVars, mapVars, room, inserts, creating, join, pastVars>>

\* ... which, thirty seconds later, deletes whatever hub the map then holds.
HandleAuctionEnd(j) ==
  /\ timer[j] = "grace"
  /\ timer' = [timer EXCEPT ![j] = "done"]
  /\ IF hub = 0 THEN UNCHANGED <<hub, room>> ELSE CancelAndDelete
  /\ UNCHANGED <<phase, tableVars, stop, made, inserts, creating, join, pastVars>>

\* Faulty variant: the end of the auction is not looked at.
CleanupAnyTime ==
  /\ stop # "done"
  /\ hub # 0
  /\ crowd(hub) = {}
  /\ CancelAndDelete
  /\ UNCHANGED <<phase, tableVars, stop, made, inserts, requestVars, pastVars>>

\* The cleanup loop, for a hub without clients that has been quiet for a minute.
\* Who waits in Register is not counted.
performCleanup ==
  /\ stop # "done"
  /\ hub # 0
  /\ Ended
  /\ crowd(hub) = {}
  /\ CancelAndDelete
  /\ UNCHANGED <<phase, tableVars, stop, made, inserts, requestVars, pastVars>>

\* A hub that goes before the end is remembered.
Lose == lost' = (lost \/ (hub # 0 /\ ~Ended))

\* The handler DeleteAuction takes the hub away and leaves the row.
DeleteAuction ==
  /\ "delete" \in Faults
  /\ hub # 0
  /\ CancelAndDelete
  /\ Lose
  /\ UNCHANGED <<phase, tableVars, stop, made, inserts, requestVars, accepted, restarts>>

\* HubManager.Stop: the flag first ...
StopFlag ==
  /\ "stop" \in Faults
  /\ stop = "no"
  /\ restarts < MaxRestarts
  /\ stop' = "stopped"
  /\ UNCHANGED <<phase, tableVars, hub, made, room, inserts, requestVars, pastVars>>

\* ... then, in another critical section, every hub.
StopHubs ==
  /\ stop = "stopped"
  /\ stop' = "done"
  /\ IF hub = 0 THEN UNCHANGED <<hub, room>> ELSE CancelAndDelete
  /\ Lose
  /\ UNCHANGED <<phase, tableVars, made, inserts, requestVars, accepted, restarts>>

\* The process ends, after Stop or in a crash, and a new one starts: only the
\* tables are left.
Restart ==
  /\ stop = "done" \/ "crash" \in Faults
  /\ restarts < MaxRestarts
  /\ restarts' = restarts + 1
  /\ Lose
  /\ stop' = "no"
  /\ hub' = 0
  /\ room' = [g \in HubId |-> [room[g] EXCEPT !.active = FALSE]]
  /\ inserts' = {}
  /\ join' = [j \in Joiner |-> [at |-> "idle", price |-> 0, hub |-> 0]]
  /\ timer' = [j \in Joiner |-> "none"]
  /\ creating' = IF creating = "inserted" THEN "failed" ELSE creating
  /\ UNCHANGED <<phase, tableVars, made, accepted>>

-----------------------------------------------------------------------------
(* The scheduler, as far as the status goes.                                 *)

MarkAuctionsActive ==
  /\ status = "INACTIVE"
  /\ phase = "open"
  /\ status' = "ACTIVE"
  /\ UNCHANGED <<phase, bids, mapVars, room, inserts, requestVars, pastVars>>

MarkAuctionsEnded ==
  /\ status = "ACTIVE"
  /\ Ended
  /\ status' = "ENDED"
  /\ UNCHANGED <<phase, bids, mapVars, room, inserts, requestVars, pastVars>>

-----------------------------------------------------------------------------

CreateAuction == InsertAuction \/ CreateHub

JoinAuction(j) == GetHub(j) \/ ReadAuction(j) \/ GetOrCreateHub(j) \/ Register(j)

RequestStep == CreateAuction \/ DeleteAuction \/ \E j \in Joiner : JoinAuction(j)

HubStep ==
  \/ \E j \in Joiner : TakeClient(j) \/ Leave(j)
  \/ \E g \in HubId, b \in Bid : PlaceBid(g, b)
  \/ \E g \in HubId, n \in 1..MaxBids : InsertBid(g, n) \/ LoseInsert(g, n)

ServerStep ==
  \/ TimePasses
  \/ \E j \in Joiner : EndTimer(j) \/ HandleAuctionEnd(j)
  \/ performCleanup
  \/ StopFlag \/ StopHubs \/ Restart
  \/ MarkAuctionsActive \/ MarkAuctionsEnded

Next == RequestStep \/ HubStep \/ ServerStep

Spec == Init /\ [][Next]_vars

-----------------------------------------------------------------------------
(* Properties.                                                               *)

Room == [active : BOOLEAN, start : 0..MaxBidAmount, increment : {Increment, Stored(Increment)},
         highest : HighestBid, restored : BOOLEAN]

Place == {"idle", "look", "restore", "found", "waiting", "member", "left",
          "broken"}

\* The types; no more hubs than were made, no row that its columns do not allow,
\* and no insert but of an accepted bid.
TypeOK ==
  /\ phase \in {"early", "open", "over"}
  /\ status \in Status \cup {"none"}
  /\ status # "none" => AuctionAllowed
  /\ bids \in Seq([sender : User, price : 1..MaxStored])
  /\ creating \in {"idle", "inserted", "failed", "done"}
  /\ stop \in {"no", "stopped", "done"}
  /\ made \in 0..MaxHubs
  /\ hub \in 0..made
  /\ room \in [HubId -> Room]
  /\ inserts \subseteq HubId \X DOMAIN accepted
  /\ join \in [Joiner -> [at : Place, price : 0..MaxBidAmount, hub : 0..MaxHubs]]
  /\ timer \in [Joiner -> {"none", "armed", "grace", "done"}]
  /\ accepted \in Seq(Bid)
  /\ restarts \in 0..MaxRestarts
  /\ lost \in BOOLEAN

\* Only the hub in the map may accept bids: whatever requests to join, to
\* create and to delete cross each other, no second hub of the auction is left
\* running aside (hub_manager.go: GetOrCreateHub, CreateHub, DeleteHub).
OneHub == \A g \in HubId : room[g].active => hub = g

\* A hub asks for the increment of the request or for that of the row.
LeastIncrement == IF Stored(Increment) < Increment THEN Stored(Increment) ELSE Increment

\* Every accepted bid is above the ones before by the increment, whichever hub
\* accepted it (ws-handler.go: a hub is restored from the table).
AcceptedRises ==
  \A i, j \in DOMAIN accepted :
    i < j => accepted[j].price >= accepted[i].price + LeastIncrement

\* Nobody outbids himself.
NobodyTwice ==
  \A i \in DOMAIN accepted : i > 1 => accepted[i].sender # accepted[i - 1].sender

\* Both hold as long as no hub goes before the end: one that ended, was cleaned
\* up or was made from a row read earlier takes nothing back and forgets nobody.
RisesUntilLoss == ~lost => AcceptedRises /\ NobodyTwice

\* Everybody who is asked names u: the mails, the listing, the auction's page, the
\* pages of its seller and bidders, and the statistics.
AllName(u) ==
  /\ GetHighestBidForAuction(bids).sender = u
  /\ GetAllAuctions(status, 0, bids).highestBidder = u
  /\ GetAuctionByID(status, 0, bids).highestBidder = u
  /\ GetAuctionsByUserID(status, bids).winnerName = u
  /\ \A v \in User :
       /\ Won(status, bids, v) <=> v = u
       /\ \A entry \in GetParticipatedAuctions(status, bids, v) : entry.winnerName = u

\* The last bid that was announced wins the auction, once every accepted bid has
\* reached the table, in whatever order they did: the page shows its amount, its
\* sender counts as a winner, and everybody names him unless an earlier bid was
\* rounded to the same cent.  Then the queries break the tie differently
\* (bid.go:112, auction.go:387).  It takes that no hub was lost before the end.
AnnouncedBidWins ==
  (~lost /\ status = "ENDED" /\ accepted # <<>> /\ Len(bids) = Len(accepted)) =>
     LET last == accepted[Len(accepted)]
     IN  /\ GetAuctionByID(status, 0, bids).currentPrice = Stored(last.price)
         /\ Won(status, bids, last.sender)
         /\ \/ AllName(last.sender)
            \/ \E n \in 1..Len(accepted) - 1 : Stored(accepted[n].price) = Stored(last.price)

\* A manager that has stopped makes no hub any more: none would be cancelled
\* (hub_manager.go: the test of stopped in GetOrCreateHub and CreateHub).
StoppedStaysEmpty == stop = "done" => hub = 0

\* A restored hub does not outlive its auction in the map: as long as it is
\* there, a goroutine that will delete it has not yet done so, whatever hubs
\* came before and whichever request made this one (ws-handler.go: the goroutine
\* of each request; hub_manager.go: HandleAuctionEnd).
RestoredHubsGo ==
  (hub # 0 /\ room[hub].restored) => \E j \in Joiner : timer[j] \in {"armed", "grace"}
=============================================================================
