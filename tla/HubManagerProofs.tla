-------------------------- MODULE HubManagerProofs --------------------------
(***************************************************************************)
(* One running hub, rising bids and the winner they announce, for any      *)
(* number of requests, hubs, bids and restarts, any prices, any rounding   *)
(* of what is stored and any set of faults.                                *)
(***************************************************************************)
EXTENDS HubManager, TablesProofs, FiniteSetTheorems

-----------------------------------------------------------------------------
(* Types.                                                                    *)

\* What the proofs use of the constants.
LEMMA Constants ==
  /\ MaxHubs \in Nat /\ MaxRestarts \in Nat /\ MaxBidAmount \in Nat
  /\ Whole \in Nat /\ Whole >= 1
  /\ FirstStatus \subseteq Status
<1>1. /\ MaxHubs \in Nat /\ MaxRestarts \in Nat /\ Whole \in Nat \ {0}
      /\ FirstStatus \subseteq Status
  BY HubManagerAssumption, Zenon
<1>2. MaxBidAmount \in Nat
  BY BidRulesAssumption
<1>3. Whole \in Nat /\ Whole >= 1
  BY <1>1
<1>. QED
  BY <1>1, <1>2, <1>3

\* The price a hub is restored with is not above the one of the table.
LEMMA CutTyped ==
  ASSUME NEW p \in 0..MaxBidAmount
  PROVE  Cut(p) \in 0..MaxBidAmount
<1>1. Whole \in Nat /\ Whole >= 1 /\ MaxBidAmount \in Nat /\ p \in Nat
  BY Constants, BidRulesAssumption
<1>2. p \div Whole \in Nat /\ p % Whole \in Nat /\ p = (Whole * (p \div Whole)) + (p % Whole)
  BY <1>1
<1>3. Whole * (p \div Whole) \in Nat
  BY <1>1, <1>2
<1>. DEFINE c == Whole * (p \div Whole)
            r == p % Whole
<1>4. c \in Nat /\ r \in Nat /\ p = c + r
  BY <1>2, <1>3
<1>. HIDE DEF c, r
<1>5. c \in 0..MaxBidAmount
  BY <1>1, <1>4
<1>. QED
  BY <1>5 DEF Cut, c

LEMMA RecoveredTyped ==
  ASSUME NEW p \in 0..MaxBidAmount
  PROVE  RecoveredBid(p) \in HighestBid
  BY BidRulesAssumption DEF RecoveredBid, HighestBid, Price

\* A row of the table is a bid.
LEMMA RowsAreBids ==
  ASSUME TypeOK
  PROVE  bids \in Seq(Bid)
<1>. DEFINE R == [sender : User, price : 1..MaxStored]
<1>1. bids \in Seq(R)
  BY DEF TypeOK
<1>2. R \subseteq Bid
  BY ColumnAssumption, BidRulesAssumption DEF Bid, Price
<1>. HIDE DEF R
<1>3. Len(bids) \in Nat /\ DOMAIN bids = 1..Len(bids) /\ \A i \in 1..Len(bids) : bids[i] \in R
  BY <1>1, LenProperties, ElementOfSeq
<1>4. bids = [i \in 1..Len(bids) |-> bids[i]]
  BY <1>1, LenProperties
<1>. QED
  BY <1>2, <1>3, <1>4, IsASeq

\* By how much one accepted bid is above another.
LEMMA LeastIncrementFacts ==
  /\ LeastIncrement \in Nat
  /\ \A i \in {Increment, Stored(Increment)} : i \in Nat /\ i >= LeastIncrement
<1>1. Increment \in Nat /\ Stored(Increment) \in Nat
  BY BidRulesAssumption, StoredNat
<1>. DEFINE s == Stored(Increment)
<1>. HIDE DEF s
<1>. QED
  BY <1>1 DEF LeastIncrement, s

LEMMA NewHubTyped ==
  ASSUME TypeOK, NEW start \in 0..MaxBidAmount, NEW increment \in {Increment, Stored(Increment)},
         NEW highest \in HighestBid,
         NEW restored \in BOOLEAN, NewHub(start, increment, highest, restored)
  PROVE  /\ made' \in 0..MaxHubs /\ made' = made + 1 /\ hub' = made' /\ hub' \in HubId
         /\ hub' \in 0..made'
         /\ room' \in [HubId -> Room]
         /\ room'[made'].active /\ room'[made'].highest = highest /\ room'[made'].restored = restored
         /\ \A g \in HubId \ {made'} : room'[g] = room[g]
<1>1. made + 1 \in HubId /\ made' = made + 1 /\ hub' = made + 1
  BY Constants DEF TypeOK, NewHub, HubId
<1>2. made' \in 0..MaxHubs /\ hub' \in 0..made'
  BY <1>1, Constants DEF HubId
<1>. DEFINE new == [active |-> TRUE, start |-> start, increment |-> increment,
                    highest |-> highest, restored |-> restored]
<1>3. new \in Room /\ new.active /\ new.highest = highest /\ new.restored = restored
  BY DEF Room
<1>4. room' = [room EXCEPT ![made + 1] = new]
  BY DEF NewHub
<1>. HIDE DEF new, HubId, Room
<1>5. room \in [HubId -> Room]
  BY DEF TypeOK
<1>. QED
  BY <1>1, <1>2, <1>3, <1>4, <1>5

LEMMA CancelTyped ==
  ASSUME TypeOK, hub # 0, CancelAndDelete
  PROVE  /\ hub \in HubId /\ hub' = 0 /\ hub' \in 0..made
         /\ room' \in [HubId -> Room]
         /\ ~room'[hub].active
         /\ \A g \in HubId \ {hub} : room'[g] = room[g]
<1>1. hub \in HubId /\ hub' = 0 /\ hub' \in 0..made
  BY Constants DEF TypeOK, CancelAndDelete, HubId
<1>. HIDE DEF HubId
<1>2. room \in [HubId -> Room] /\ room' = [room EXCEPT ![hub].active = FALSE]
  BY DEF TypeOK, CancelAndDelete
<1>. QED
  BY <1>1, <1>2 DEF Room

LEMMA GoesTyped ==
  ASSUME TypeOK, NEW j \in Joiner, NEW place \in Place, Goes(j, place)
  PROVE  join' \in [Joiner -> [at : Place, price : 0..MaxBidAmount, hub : 0..MaxHubs]]
  BY DEF TypeOK, Goes

LEMMA FindsTyped ==
  ASSUME TypeOK, NEW j \in Joiner, NEW g \in 0..MaxHubs, Finds(j, g)
  PROVE  join' \in [Joiner -> [at : Place, price : 0..MaxBidAmount, hub : 0..MaxHubs]]
  BY DEF TypeOK, Finds, Place

\* Only an active auction is restored.
LEMMA ReadsActive ==
  ASSUME TypeOK, NEW j \in Joiner, ReadAuction(j),
         join' = [join EXCEPT ![j].at = "restore", ![j].price = Cut(current_price(bids))]
  PROVE  status = "ACTIVE"
<1>1. join'[j].at = "restore"
  BY DEF TypeOK
<1>2. ASSUME Goes(j, "idle") PROVE join'[j].at = "idle"
  BY <1>2 DEF TypeOK, Goes
<1>. QED
  BY <1>1, <1>2 DEF ReadAuction, GetAuctionByID

\* One more bid in a sequence of them.
LEMMA Appended ==
  ASSUME NEW s \in Seq(Bid), NEW b \in Bid, NEW t, t = Append(s, b)
  PROVE  /\ t \in Seq(Bid) /\ t # <<>> /\ Len(s) \in Nat /\ Len(t) = Len(s) + 1
         /\ DOMAIN s = 1..Len(s) /\ DOMAIN t = 1..(Len(s) + 1)
         /\ DOMAIN s \subseteq DOMAIN t /\ Len(t) \in DOMAIN t /\ Len(t) \notin DOMAIN s
         /\ \A i \in DOMAIN s : t[i] = s[i]
         /\ t[Len(t)] = b
<1>1. /\ t \in Seq(Bid) /\ t # <<>> /\ Len(s) \in Nat /\ Len(t) = Len(s) + 1
      /\ \A i \in 1..Len(s) : t[i] = s[i]
      /\ t[Len(s) + 1] = b
  BY AppendProperties, LenProperties
<1>2. DOMAIN s = 1..Len(s) /\ DOMAIN t = 1..(Len(s) + 1)
  BY <1>1, LenProperties
<1>. QED
  BY <1>1, <1>2

\* An insert under way is one of an accepted bid.
LEMMA Accepted ==
  ASSUME TypeOK, NEW g, NEW n, <<g, n>> \in inserts
  PROVE  n \in DOMAIN accepted /\ accepted[n] \in Bid
<1>1. <<g, n>> \in HubId \X DOMAIN accepted
  BY DEF TypeOK
<1>. QED
  BY <1>1, LenProperties, ElementOfSeq DEF TypeOK

LEMMA InitTyped == Init => TypeOK
<1>. SUFFICES ASSUME Init PROVE TypeOK
  OBVIOUS
<1>1. room \in [HubId -> Room]
  BY BidRulesAssumption DEF Init, NoRoom, Room, HighestBid
<1>2. bids \in Seq([sender : User, price : 1..MaxStored]) /\ accepted \in Seq(Bid)
  BY EmptySeq DEF Init
<1>3. made \in 0..MaxHubs /\ hub \in 0..made /\ restarts \in 0..MaxRestarts
  BY Constants DEF Init
<1>4. join \in [Joiner -> [at : Place, price : 0..MaxBidAmount, hub : 0..MaxHubs]]
  BY Constants DEF Init, Place
<1>. QED
  BY <1>1, <1>2, <1>3, <1>4 DEF Init, TypeOK

LEMMA TypeStep == TypeOK /\ [Next]_vars => TypeOK'
<1>. SUFFICES ASSUME TypeOK, [Next]_vars PROVE TypeOK'
  OBVIOUS
<1>. DEFINE Requests == [Joiner -> [at : Place, price : 0..MaxBidAmount, hub : 0..MaxHubs]]
            Timers == [Joiner -> {"none", "armed", "grace", "done"}]
<1>0. /\ hub \in 0..MaxHubs /\ made \in Nat /\ MaxHubs \in Nat /\ MaxRestarts \in Nat /\ MaxBidAmount \in Nat
      /\ hub \in 0..made /\ made \in 0..MaxHubs
  BY Constants, BidRulesAssumption DEF TypeOK
\* Steps that change nothing but the requests to join.
<1>1. ASSUME join' \in Requests,
             UNCHANGED <<phase, tableVars, mapVars, room, inserts, creating, timer, pastVars>>
      PROVE  TypeOK'
  BY <1>1 DEF TypeOK, tableVars, mapVars, pastVars
\* Steps that take the hub away.
<1>2. ASSUME hub # 0, CancelAndDelete, UNCHANGED <<phase, tableVars, made, inserts, creating, join, accepted, restarts>>,
             timer' \in Timers, stop' \in {"no", "stopped", "done"}, lost' \in BOOLEAN
      PROVE  TypeOK'
  <2>1. hub' \in 0..made /\ room' \in [HubId -> Room]
    BY <1>2, CancelTyped
  <2>. QED
    BY <1>2, <2>1 DEF TypeOK, tableVars
<1>3. CASE TimePasses
  BY <1>3 DEF TypeOK, TimePasses, tableVars, mapVars, requestVars, pastVars
<1>4. CASE InsertAuction
  BY <1>4, Constants DEF TypeOK, InsertAuction, mapVars, pastVars
<1>5. CASE CreateHub
  <2>1. UNCHANGED <<phase, tableVars, stop, inserts, join, timer, pastVars>>
    BY <1>5 DEF CreateHub
  <2>2. CASE stop # "no" \/ hub # 0
    BY <1>5, <2>1, <2>2 DEF CreateHub, TypeOK, tableVars, pastVars
  <2>3. CASE ~(stop # "no" \/ hub # 0)
    <3>1. creating' = "done" /\ NewHub(StartingPrice, Increment, NoBid, FALSE)
      BY <1>5, <2>3 DEF CreateHub
    <3>2. made' \in 0..MaxHubs /\ hub' \in 0..made' /\ room' \in [HubId -> Room]
      BY <3>1, NewHubTyped, BidRulesAssumption DEF HighestBid
    <3>. QED
      BY <2>1, <3>1, <3>2 DEF TypeOK, tableVars, pastVars
  <2>. QED
    BY <2>2, <2>3
<1>6. ASSUME NEW j \in Joiner, GetHub(j) PROVE TypeOK'
  <2>1. join' \in Requests
    <3>1. CASE hub # 0
      BY <1>0, <1>6, <3>1, FindsTyped DEF GetHub
    <3>2. CASE hub = 0
      BY <1>6, <3>2, GoesTyped DEF GetHub, Place
    <3>. QED
      BY <3>1, <3>2
  <2>. QED
    BY <1>1, <1>6, <2>1 DEF GetHub
<1>7. ASSUME NEW j \in Joiner, ReadAuction(j) PROVE TypeOK'
  <2>. DEFINE row == GetAuctionByID(status, 0, bids)
  <2>1. join' \in Requests
    <3>1. CASE Goes(j, "idle")
      BY <3>1, GoesTyped DEF Place
    <3>2. CASE join' = [join EXCEPT ![j].at = "restore", ![j].price = Cut(row.currentPrice)]
      <4>1. row.currentPrice \in 0..MaxBidAmount
        <5>1. status = "ACTIVE"
          BY <1>7, <3>2, ReadsActive DEF GetAuctionByID
        <5>2. Stored(StartingPrice) \in 1..MaxStored
          BY <5>1 DEF TypeOK, AuctionAllowed
        <5>. QED
          BY <5>2, RowsAreBids, CurrentPriceTyped DEF GetAuctionByID
      <4>2. Cut(row.currentPrice) \in 0..MaxBidAmount
        BY <4>1, CutTyped
      <4>. HIDE DEF row
      <4>. QED
        BY <3>2, <4>2 DEF TypeOK, Place
    <3>. QED
      BY <1>7, <3>1, <3>2 DEF ReadAuction
  <2>. QED
    BY <1>1, <1>7, <2>1 DEF ReadAuction
<1>8. ASSUME NEW j \in Joiner, GetOrCreateHub(j) PROVE TypeOK'
  <2>1. UNCHANGED <<phase, tableVars, stop, inserts, creating, pastVars>> /\ timer' \in Timers
    BY <1>8 DEF GetOrCreateHub, TypeOK
  <2>2. ASSUME join' \in Requests, UNCHANGED <<hub, made, room>> PROVE TypeOK'
    BY <2>1, <2>2 DEF TypeOK, tableVars, pastVars
  <2>3. CASE stop # "no"
    BY <1>8, <2>2, <2>3, GoesTyped DEF GetOrCreateHub, Place
  <2>4. CASE stop = "no" /\ hub # 0
    BY <1>0, <1>8, <2>2, <2>4, FindsTyped DEF GetOrCreateHub
  <2>5. CASE stop = "no" /\ hub = 0
    <3>1. /\ Finds(j, made + 1)
          /\ NewHub(join[j].price, Stored(Increment), RecoveredBid(join[j].price), TRUE)
      BY <1>8, <2>5 DEF GetOrCreateHub, RestoreHub
    <3>2. join[j].price \in 0..MaxBidAmount
      BY DEF TypeOK
    <3>3. /\ made' \in 0..MaxHubs /\ made' = made + 1 /\ hub' \in 0..made' /\ room' \in [HubId -> Room]
      BY <3>1, <3>2, NewHubTyped, RecoveredTyped
    <3>4. join' \in Requests
      BY <3>1, <3>3, FindsTyped
    <3>. QED
      BY <2>1, <3>3, <3>4 DEF TypeOK, tableVars, pastVars
  <2>. QED
    BY <2>3, <2>4, <2>5
<1>9. ASSUME NEW j \in Joiner, Register(j) \/ TakeClient(j) \/ Leave(j) PROVE TypeOK'
  BY <1>1, <1>9, GoesTyped DEF Register, TakeClient, Leave, Place
<1>10. ASSUME NEW g \in HubId, NEW b \in Bid, PlaceBid(g, b) PROVE TypeOK'
  <2>1. room' \in [HubId -> Room]
    <3>1. b \in HighestBid
      BY BidRulesAssumption DEF Bid, HighestBid
    <3>2. room \in [HubId -> Room] /\ room' = [room EXCEPT ![g].highest = b]
      BY <1>10 DEF TypeOK, PlaceBid
    <3>. QED
      BY <3>1, <3>2 DEF Room
  <2>2. accepted' \in Seq(Bid) /\ inserts' \subseteq HubId \X DOMAIN accepted'
    <3>1. accepted \in Seq(Bid) /\ inserts \subseteq HubId \X DOMAIN accepted
      BY DEF TypeOK
    <3>2. accepted' = Append(accepted, b) /\ inserts' = inserts \cup {<<g, Len(accepted')>>}
      BY <1>10 DEF PlaceBid
    <3>3. /\ accepted' \in Seq(Bid) /\ DOMAIN accepted \subseteq DOMAIN accepted'
          /\ Len(accepted') \in DOMAIN accepted'
      BY <3>1, <3>2, Appended
    <3>. QED
      BY <3>1, <3>2, <3>3
  <2>. QED
    BY <1>10, <2>1, <2>2 DEF PlaceBid, TypeOK, tableVars, mapVars, requestVars
<1>11. ASSUME NEW g \in HubId, NEW n, InsertBid(g, n) PROVE TypeOK'
  <2>. DEFINE R == [sender : User, price : 1..MaxStored]
  <2>1. bids' \in Seq(R)
    <3>1. bids \in Seq(R) /\ bids' = Append(bids, Row(accepted[n]))
      BY <1>11 DEF TypeOK, InsertBid
    <3>2. Row(accepted[n]) \in R
      BY <1>11, Accepted, RowTyped DEF InsertBid
    <3>. HIDE DEF R
    <3>. QED
      BY <3>1, <3>2, AppendProperties
  <2>2. inserts' \subseteq HubId \X DOMAIN accepted
    BY <1>11 DEF TypeOK, InsertBid
  <2>. HIDE DEF R
  <2>3. UNCHANGED <<phase, status, mapVars, room, requestVars, pastVars>>
    BY <1>11 DEF InsertBid
  <2>. QED
    BY <2>1, <2>2, <2>3 DEF TypeOK, mapVars, requestVars, pastVars, R
<1>12. ASSUME NEW g \in HubId, NEW n, LoseInsert(g, n) PROVE TypeOK'
  BY <1>12 DEF LoseInsert, TypeOK, tableVars, mapVars, requestVars, pastVars
<1>13. ASSUME NEW j \in Joiner, EndTimer(j) PROVE TypeOK'
  BY <1>13 DEF EndTimer, TypeOK, tableVars, mapVars, pastVars
<1>14. ASSUME NEW j \in Joiner, HandleAuctionEnd(j) PROVE TypeOK'
  <2>1. timer' \in Timers
    BY <1>14 DEF HandleAuctionEnd, TypeOK
  <2>2. CASE hub = 0
    BY <1>14, <2>1, <2>2 DEF HandleAuctionEnd, TypeOK, tableVars, pastVars
  <2>3. CASE hub # 0
    BY <1>2, <1>14, <2>1, <2>3 DEF HandleAuctionEnd, TypeOK, pastVars
  <2>. QED
    BY <2>2, <2>3
<1>15. CASE performCleanup
  BY <1>2, <1>15 DEF performCleanup, TypeOK, requestVars, pastVars
<1>16. CASE DeleteAuction
  BY <1>2, <1>16 DEF DeleteAuction, Lose, TypeOK, requestVars
<1>17. CASE StopFlag
  BY <1>17 DEF StopFlag, TypeOK, tableVars, requestVars, pastVars
<1>18. CASE StopHubs
  <2>1. CASE hub = 0
    BY <1>18, <2>1 DEF StopHubs, Lose, TypeOK, tableVars, requestVars
  <2>2. CASE hub # 0
    BY <1>2, <1>18, <2>2 DEF StopHubs, Lose, TypeOK, requestVars
  <2>. QED
    BY <2>1, <2>2
<1>19. CASE Restart
  <2>1. room' \in [HubId -> Room]
    <3>. HIDE DEF HubId
    <3>. QED
      BY <1>19 DEF Restart, TypeOK, Room
  <2>2. join' \in Requests /\ timer' \in Timers
    BY <1>0, <1>19 DEF Restart, Place
  <2>3. restarts' \in 0..MaxRestarts /\ hub' \in 0..made
    BY <1>0, <1>19 DEF Restart, TypeOK
  <2>. QED
    BY <1>19, <2>1, <2>2, <2>3 DEF Restart, Lose, TypeOK, tableVars
<1>20. CASE MarkAuctionsActive
  BY <1>20 DEF MarkAuctionsActive, TypeOK, Status, mapVars, requestVars, pastVars
<1>21. CASE MarkAuctionsEnded
  BY <1>21 DEF MarkAuctionsEnded, TypeOK, Status, mapVars, requestVars, pastVars
<1>22. CASE UNCHANGED vars
  BY <1>22 DEF TypeOK, vars, tableVars, mapVars, requestVars, pastVars
<1>. QED
  BY <1>3, <1>4, <1>5, <1>6, <1>7, <1>8, <1>9, <1>10, <1>11, <1>12, <1>13, <1>14, <1>15, <1>16, <1>17,
     <1>18, <1>19, <1>20, <1>21, <1>22
  DEF Next, RequestStep, HubStep, ServerStep, CreateAuction, JoinAuction

\* The types hold in every behaviour (hub_manager.go: no hub beyond those that
\* were made; ws-handler.go: the restored price is one).
THEOREM TypeCorrect == Spec => []TypeOK
BY InitTyped, TypeStep, PTL DEF Spec

-----------------------------------------------------------------------------
(* The map of hubs.                                                          *)

\* One hub runs at a time, none when the manager has stopped, and a restored
\* one has a goroutine that will delete it: together they are inductive.
MapInv == OneHub /\ StoppedStaysEmpty /\ RestoredHubsGo

\* The hub is taken out of the map.
LEMMA CancelKeepsMap ==
  ASSUME TypeOK, MapInv, hub # 0, CancelAndDelete
  PROVE  MapInv'
<1>1. /\ hub \in HubId /\ hub' = 0 /\ ~room'[hub].active
      /\ \A g \in HubId \ {hub} : room'[g] = room[g]
  BY CancelTyped
<1>2. \A g \in HubId : ~room'[g].active
  BY <1>1 DEF MapInv, OneHub
<1>. QED
  BY <1>1, <1>2 DEF MapInv, OneHub, StoppedStaysEmpty, RestoredHubsGo

\* A hub is made and put in the map, which had none.
LEMMA NewHubKeepsMap ==
  ASSUME TypeOK, MapInv, hub = 0, stop = "no", stop' = "no",
         NEW start \in 0..MaxBidAmount, NEW increment \in {Increment, Stored(Increment)},
         NEW highest \in HighestBid, NEW restored \in BOOLEAN,
         NewHub(start, increment, highest, restored),
         restored => \E j \in Joiner : timer'[j] = "armed"
  PROVE  MapInv'
<1>1. /\ hub' = made' /\ made' \in HubId
      /\ room'[made'].active /\ room'[made'].restored = restored
      /\ \A g \in HubId \ {made'} : room'[g] = room[g]
  BY NewHubTyped
<1>2. \A g \in HubId : ~room[g].active
  BY DEF MapInv, OneHub, HubId
<1>3. OneHub'
  BY <1>1, <1>2 DEF OneHub
<1>4. StoppedStaysEmpty' /\ RestoredHubsGo'
  BY <1>1 DEF StoppedStaysEmpty, RestoredHubsGo
<1>. QED
  BY <1>3, <1>4 DEF MapInv

LEMMA MapStep == TypeOK /\ MapInv /\ [Next]_vars => MapInv'
<1>. SUFFICES ASSUME TypeOK, MapInv, [Next]_vars PROVE MapInv'
  OBVIOUS
\* Steps that leave the map alone.
<1>1. ASSUME UNCHANGED <<stop, hub, room, timer>> PROVE MapInv'
  BY <1>1 DEF MapInv, OneHub, StoppedStaysEmpty, RestoredHubsGo
<1>2. CASE TimePasses \/ InsertAuction \/ MarkAuctionsActive \/ MarkAuctionsEnded \/ UNCHANGED vars
  BY <1>1, <1>2 DEF TimePasses, InsertAuction, MarkAuctionsActive, MarkAuctionsEnded, vars, mapVars, requestVars
<1>3. CASE CreateHub
  <2>1. CASE stop # "no" \/ hub # 0
    BY <1>1, <1>3, <2>1 DEF CreateHub
  <2>2. CASE ~(stop # "no" \/ hub # 0)
    <3>1. NewHub(StartingPrice, Increment, NoBid, FALSE) /\ stop' = stop
      BY <1>3, <2>2 DEF CreateHub
    <3>2. StartingPrice \in 0..MaxBidAmount /\ NoBid \in HighestBid /\ FALSE \in BOOLEAN
      BY BidRulesAssumption DEF HighestBid
    <3>. QED
      BY <2>2, <3>1, <3>2, NewHubKeepsMap
  <2>. QED
    BY <2>1, <2>2
<1>4. ASSUME NEW j \in Joiner,
             GetHub(j) \/ ReadAuction(j) \/ Register(j) \/ TakeClient(j) \/ Leave(j)
      PROVE  MapInv'
  BY <1>1, <1>4 DEF GetHub, ReadAuction, Register, TakeClient, Leave, mapVars
<1>5. ASSUME NEW j \in Joiner, GetOrCreateHub(j) PROVE MapInv'
  <2>1. timer' = [timer EXCEPT ![j] = "armed"] /\ stop' = stop /\ timer'[j] = "armed"
    BY <1>5 DEF GetOrCreateHub, TypeOK
  <2>2. ASSUME UNCHANGED <<hub, room>> PROVE MapInv'
    BY <2>1, <2>2 DEF MapInv, OneHub, StoppedStaysEmpty, RestoredHubsGo
  <2>3. CASE stop # "no"
    BY <1>5, <2>2, <2>3 DEF GetOrCreateHub
  <2>4. CASE stop = "no" /\ hub # 0
    BY <1>5, <2>2, <2>4 DEF GetOrCreateHub
  <2>5. CASE stop = "no" /\ hub = 0
    <3>1. NewHub(join[j].price, Stored(Increment), RecoveredBid(join[j].price), TRUE)
      BY <1>5, <2>5 DEF GetOrCreateHub, RestoreHub
    <3>2. join[j].price \in 0..MaxBidAmount /\ TRUE \in BOOLEAN
      BY DEF TypeOK
    <3>3. RecoveredBid(join[j].price) \in HighestBid
      BY <3>2, RecoveredTyped
    <3>. QED
      BY <2>1, <2>5, <3>1, <3>2, <3>3, NewHubKeepsMap
  <2>. QED
    BY <2>3, <2>4, <2>5
<1>6. ASSUME NEW g \in HubId, NEW b \in Bid, PlaceBid(g, b) PROVE MapInv'
  <2>1. UNCHANGED <<stop, hub, timer>> /\ room' = [room EXCEPT ![g].highest = b]
    BY <1>6 DEF PlaceBid, mapVars, requestVars
  <2>2. \A h \in HubId : room'[h].active = room[h].active /\ room'[h].restored = room[h].restored
    <3>1. room \in [HubId -> Room]
      BY DEF TypeOK
    <3>. HIDE DEF HubId
    <3>. QED
      BY <2>1, <3>1 DEF Room
  <2>3. hub # 0 => hub \in HubId
    BY Constants DEF TypeOK, HubId
  <2>. QED
    BY <2>1, <2>2, <2>3 DEF MapInv, OneHub, StoppedStaysEmpty, RestoredHubsGo
<1>7. ASSUME NEW g \in HubId, NEW n, InsertBid(g, n) \/ LoseInsert(g, n) PROVE MapInv'
  BY <1>1, <1>7 DEF InsertBid, LoseInsert, mapVars, requestVars
<1>8. ASSUME NEW j \in Joiner, EndTimer(j) PROVE MapInv'
  <2>1. UNCHANGED <<stop, hub, room>> /\ timer' = [timer EXCEPT ![j] = "grace"]
    BY <1>8 DEF EndTimer, mapVars
  <2>2. \A i \in Joiner : timer[i] \in {"armed", "grace"} => timer'[i] \in {"armed", "grace"}
    BY <2>1 DEF TypeOK
  <2>. QED
    BY <2>1, <2>2 DEF MapInv, OneHub, StoppedStaysEmpty, RestoredHubsGo
<1>9. ASSUME NEW j \in Joiner, HandleAuctionEnd(j) PROVE MapInv'
  <2>1. CASE hub = 0
    BY <1>9, <2>1 DEF HandleAuctionEnd, MapInv, OneHub, StoppedStaysEmpty, RestoredHubsGo
  <2>2. CASE hub # 0
    BY <1>9, <2>2, CancelKeepsMap DEF HandleAuctionEnd
  <2>. QED
    BY <2>1, <2>2
<1>10. CASE performCleanup \/ DeleteAuction
  BY <1>10, CancelKeepsMap DEF performCleanup, DeleteAuction
<1>11. CASE StopFlag
  BY <1>11 DEF StopFlag, requestVars, MapInv, OneHub, StoppedStaysEmpty, RestoredHubsGo
<1>12. CASE StopHubs
  <2>1. CASE hub = 0
    BY <1>12, <2>1 DEF StopHubs, requestVars, MapInv, OneHub, StoppedStaysEmpty, RestoredHubsGo
  <2>2. CASE hub # 0
    BY <1>12, <2>2, CancelKeepsMap DEF StopHubs
  <2>. QED
    BY <2>1, <2>2
<1>13. CASE Restart
  <2>1. hub' = 0 /\ \A g \in HubId : ~room'[g].active
    <3>1. room \in [HubId -> Room]
      BY DEF TypeOK
    <3>. HIDE DEF HubId
    <3>. QED
      BY <1>13, <3>1 DEF Restart, Room
  <2>. QED
    BY <2>1 DEF MapInv, OneHub, StoppedStaysEmpty, RestoredHubsGo
<1>. QED
  BY <1>2, <1>3, <1>4, <1>5, <1>6, <1>7, <1>8, <1>9, <1>10, <1>11, <1>12, <1>13
  DEF Next, RequestStep, HubStep, ServerStep, CreateAuction, JoinAuction

LEMMA MapInvariant == Spec => [](TypeOK /\ MapInv)
<1>1. Init => TypeOK /\ MapInv
  BY InitTyped DEF Init, NoRoom, MapInv, OneHub, StoppedStaysEmpty, RestoredHubsGo
<1>2. TypeOK /\ MapInv /\ [Next]_vars => (TypeOK /\ MapInv)'
  BY TypeStep, MapStep
<1>. QED
  BY <1>1, <1>2, PTL DEF Spec

\* No hub accepts bids but the one in the map, whatever requests, ends and
\* restarts cross each other (hub_manager.go: GetOrCreateHub, CreateHub,
\* DeleteHub, HandleAuctionEnd, performCleanup, Stop).
THEOREM OneHubCorrect == Spec => []OneHub
BY MapInvariant, PTL DEF MapInv

\* A stopped manager has no hub (hub_manager.go: stopped is looked at under the
\* lock under which a hub is made).
THEOREM StopCorrect == Spec => []StoppedStaysEmpty
BY MapInvariant, PTL DEF MapInv

\* A restored hub in the map has a goroutine that will delete it (ws-handler.go:
\* every request that calls GetOrCreateHub starts one).
THEOREM RestoredCorrect == Spec => []RestoredHubsGo
BY MapInvariant, PTL DEF MapInv

-----------------------------------------------------------------------------
(* The bids.                                                                 *)

\* A hub made by a request to create or to join goes no sooner than the auction
\* ends, or is lost.
EndsLate == \A j \in Joiner : timer[j] = "grace" => Ended

\* The last bid that was accepted.
Latest == accepted[Len(accepted)]

\* Until a hub is lost: the accepted bids rise, and before the end there is but
\* one hub, whose highest bid is the last that was accepted.
RiseInv ==
  ~lost =>
    /\ AcceptedRises
    /\ NobodyTwice
    /\ phase # "over" =>
         /\ hub = made
         /\ made <= 1
         /\ accepted # <<>> => made = 1 /\ room[1].highest = Latest

\* The rows of the table are accepted bids, no two of them the same one, and what
\* is still on its way is not in the table.
Places(f) ==
  /\ f \in [DOMAIN bids -> DOMAIN accepted]
  /\ \A i, k \in DOMAIN bids : f[i] = f[k] => i = k
  /\ \A i \in DOMAIN bids : bids[i] = Row(accepted[f[i]])
  /\ \A x \in inserts : \A i \in DOMAIN bids : f[i] # x[2]

\* Whatever is lost, and in whatever order the rows came, each has its place among
\* the accepted bids.
BidsInv ==
  /\ \E f : Places(f)
  /\ \A x, y \in inserts : x[2] = y[2] => x = y

LEMMA EndsLateStep == TypeOK /\ EndsLate /\ [Next]_vars => EndsLate'
<1>. SUFFICES ASSUME TypeOK, EndsLate, [Next]_vars PROVE EndsLate'
  OBVIOUS
<1>1. ASSUME UNCHANGED <<phase, timer>> PROVE EndsLate'
  BY <1>1 DEF EndsLate, Ended
<1>2. CASE TimePasses
  BY <1>2 DEF TimePasses, requestVars, EndsLate, Ended
<1>3. ASSUME NEW j \in Joiner, GetOrCreateHub(j) PROVE EndsLate'
  BY <1>3 DEF GetOrCreateHub, TypeOK, EndsLate, Ended
<1>4. ASSUME NEW j \in Joiner, EndTimer(j) PROVE EndsLate'
  BY <1>4 DEF EndTimer, TypeOK, EndsLate, Ended
<1>5. ASSUME NEW j \in Joiner, HandleAuctionEnd(j) PROVE EndsLate'
  BY <1>5 DEF HandleAuctionEnd, TypeOK, EndsLate, Ended
<1>6. CASE Restart
  BY <1>6 DEF Restart, EndsLate
<1>7. ASSUME NEW j \in Joiner,
             GetHub(j) \/ ReadAuction(j) \/ Register(j) \/ TakeClient(j) \/ Leave(j)
      PROVE  EndsLate'
  BY <1>1, <1>7 DEF GetHub, ReadAuction, Register, TakeClient, Leave
<1>8. ASSUME NEW g \in HubId, (\E b \in Bid : PlaceBid(g, b)) \/ \E n : InsertBid(g, n) \/ LoseInsert(g, n)
      PROVE  EndsLate'
  BY <1>1, <1>8 DEF PlaceBid, InsertBid, LoseInsert, requestVars
<1>9. CASE \/ InsertAuction \/ CreateHub \/ performCleanup \/ DeleteAuction \/ StopFlag \/ StopHubs
           \/ MarkAuctionsActive \/ MarkAuctionsEnded \/ UNCHANGED vars
  BY <1>1, <1>9 DEF InsertAuction, CreateHub, performCleanup, DeleteAuction, StopFlag, StopHubs,
     MarkAuctionsActive, MarkAuctionsEnded, vars, requestVars
<1>. QED
  BY <1>2, <1>3, <1>4, <1>5, <1>6, <1>7, <1>8, <1>9
  DEF Next, RequestStep, HubStep, ServerStep, CreateAuction, JoinAuction

\* An accepted bid is above all that were accepted before it by the hub.
LEMMA AcceptedGoesOn ==
  ASSUME NEW s \in Seq(Bid), NEW b \in Bid,
         \A i, j \in DOMAIN s : i < j => s[j].price >= s[i].price + LeastIncrement,
         \A i \in DOMAIN s : i > 1 => s[i].sender # s[i - 1].sender,
         s # <<>> => b.price >= s[Len(s)].price + LeastIncrement /\ b.sender # s[Len(s)].sender,
         NEW t, t = Append(s, b)
  PROVE  /\ \A i, j \in DOMAIN t : i < j => t[j].price >= t[i].price + LeastIncrement
         /\ \A i \in DOMAIN t : i > 1 => t[i].sender # t[i - 1].sender
         /\ t # <<>> /\ Len(t) = Len(s) + 1 /\ t[Len(t)] = b
<1>. DEFINE n == Len(s)
<1>1. /\ n \in Nat /\ DOMAIN s = 1..n /\ (s # <<>> => n >= 1)
      /\ \A i \in 1..n : s[i].price \in Int
      /\ b.price \in Int /\ LeastIncrement \in Int /\ LeastIncrement >= 0
  <2>1. n \in Nat /\ DOMAIN s = 1..n /\ (s # <<>> => n >= 1)
    BY LenProperties, EmptySeq
  <2>2. \A i \in 1..n : s[i].price \in Int
    BY <2>1, RowsTyped, BidRulesAssumption
  <2>3. b.price \in Price
    BY DEF Bid
  <2>. QED
    BY <2>1, <2>2, <2>3, BidRulesAssumption, LeastIncrementFacts DEF Price
<1>2. /\ t \in Seq(Bid) /\ t # <<>> /\ Len(t) = n + 1 /\ DOMAIN t = 1..(n + 1)
      /\ \A i \in 1..n : t[i] = s[i]
      /\ t[n + 1] = b
  BY AppendProperties, LenProperties
<1>. HIDE DEF n
<1>3. ASSUME NEW i \in 1..n PROVE b.price >= s[i].price + LeastIncrement
  <2>1. s # <<>> /\ n >= 1
    <3>1. n >= 1
      BY <1>1, <1>3
    <3>. QED
      BY <3>1, EmptySeq DEF n
  <2>2. b.price >= s[n].price + LeastIncrement
    BY <2>1 DEF n
  <2>3. CASE i = n
    BY <2>2, <2>3
  <2>4. CASE i # n
    <3>1. i < n /\ n \in 1..n
      BY <1>1, <2>1, <2>4
    <3>2. s[n].price >= s[i].price + LeastIncrement
      BY <1>1, <1>3, <3>1
    <3>. QED
      BY <1>1, <2>2, <3>1, <3>2
  <2>. QED
    BY <2>3, <2>4
<1>4. ASSUME NEW i \in DOMAIN t, NEW j \in DOMAIN t, i < j PROVE t[j].price >= t[i].price + LeastIncrement
  <2>1. i \in 1..n /\ j \in 1..(n + 1)
    BY <1>1, <1>2, <1>4
  <2>2. CASE j = n + 1
    BY <1>2, <1>3, <2>1, <2>2
  <2>3. CASE j # n + 1
    <3>1. j \in 1..n
      BY <1>1, <2>1, <2>3
    <3>. QED
      BY <1>1, <1>2, <1>4, <2>1, <3>1
  <2>. QED
    BY <2>2, <2>3
<1>5. ASSUME NEW i \in DOMAIN t, i > 1 PROVE t[i].sender # t[i - 1].sender
  <2>1. i \in 1..(n + 1) /\ i - 1 \in 1..n
    BY <1>1, <1>2, <1>5
  <2>2. CASE i = n + 1
    <3>1. n >= 1 /\ i - 1 = n /\ s # <<>>
      BY <1>1, <2>1, <2>2, EmptySeq DEF n
    <3>. QED
      BY <1>2, <2>1, <2>2, <3>1 DEF n
  <2>3. CASE i # n + 1
    <3>1. i \in 1..n
      BY <1>1, <2>1, <2>3
    <3>. QED
      BY <1>1, <1>2, <1>5, <2>1, <3>1
  <2>. QED
    BY <2>2, <2>3
<1>. QED
  BY <1>2, <1>4, <1>5 DEF n

\* A bid that a hub accepts before any hub was lost is judged against the last
\* one accepted.
LEMMA JudgedByLatest ==
  ASSUME TypeOK, MapInv, RiseInv, ~lost, NEW g \in HubId, NEW b \in Bid, PlaceBid(g, b)
  PROVE  /\ phase # "over" /\ g = 1 /\ hub = made /\ made = 1
         /\ accepted # <<>> => b.price >= Latest.price + LeastIncrement /\ b.sender # Latest.sender
<1>1. /\ room[g].active /\ phase # "over"
      /\ validateBid(b, room[g].start, room[g].highest, room[g].increment, TRUE)
  BY DEF PlaceBid, validateBid, Ended
<1>2. hub = g /\ hub = made /\ made <= 1
  BY <1>1 DEF MapInv, OneHub, RiseInv
<1>3. g = 1 /\ made = 1
  BY <1>2, Constants DEF HubId, TypeOK
<1>4. ASSUME accepted # <<>> PROVE b.price >= Latest.price + LeastIncrement /\ b.sender # Latest.sender
  <2>1. room[g].highest = Latest
    BY <1>1, <1>3, <1>4 DEF RiseInv
  <2>2. Latest \in Bid
    BY <1>4, LenProperties, EmptySeq, ElementOfSeq DEF TypeOK, Latest
  <2>3. Latest # NoBid
    BY <2>2, NoBidAssumption, BidRulesAssumption DEF Bid, Price
  <2>4. b.price >= Latest.price + room[g].increment /\ b.sender # Latest.sender
    BY <1>1, <2>1, <2>3, <1>3 DEF validateBid, MinRequired, CurrentPrice
  <2>5. room[g].increment \in {Increment, Stored(Increment)}
    BY DEF TypeOK, Room
  <2>6. room[g].increment \in Nat /\ room[g].increment >= LeastIncrement /\ LeastIncrement \in Nat
    BY <2>5, LeastIncrementFacts
  <2>7. b.price \in Int /\ Latest.price \in Int
    BY <2>2, BidRulesAssumption DEF Bid, Price
  <2>. QED
    BY <2>4, <2>6, <2>7
<1>. QED
  BY <1>1, <1>2, <1>3, <1>4

LEMMA RiseStep == TypeOK /\ MapInv /\ EndsLate /\ RiseInv /\ [Next]_vars => RiseInv'
<1>. SUFFICES ASSUME TypeOK, MapInv, EndsLate, RiseInv, [Next]_vars PROVE RiseInv'
  OBVIOUS
\* Steps that touch neither the hubs nor the bids.
<1>1. ASSUME UNCHANGED <<hub, made, room, accepted, lost>>, phase = "over" => phase' = "over"
      PROVE  RiseInv'
  BY <1>1 DEF RiseInv, AcceptedRises, NobodyTwice, Latest
\* Steps after the end.
<1>2. ASSUME UNCHANGED <<accepted, lost>>, phase' = "over" PROVE RiseInv'
  BY <1>2 DEF RiseInv, AcceptedRises, NobodyTwice
\* A hub is made where there was none.
<1>3. ASSUME hub = 0, made' = made + 1, hub' = made + 1, UNCHANGED <<phase, accepted, lost>>
      PROVE  RiseInv'
  <2>1. CASE phase = "over"
    BY <1>2, <1>3, <2>1
  <2>2. CASE phase # "over"
    BY <1>3, <2>2 DEF RiseInv, AcceptedRises, NobodyTwice
  <2>. QED
    BY <2>1, <2>2
<1>4. CASE \/ TimePasses \/ InsertAuction \/ StopFlag \/ MarkAuctionsActive \/ MarkAuctionsEnded
           \/ UNCHANGED vars
  BY <1>1, <1>4 DEF TimePasses, InsertAuction, StopFlag, MarkAuctionsActive, MarkAuctionsEnded, vars,
     mapVars, pastVars
<1>5. CASE CreateHub
  BY <1>1, <1>3, <1>5 DEF CreateHub, NewHub, pastVars
<1>6. ASSUME NEW j \in Joiner,
             GetHub(j) \/ ReadAuction(j) \/ Register(j) \/ TakeClient(j) \/ Leave(j) \/ EndTimer(j)
      PROVE  RiseInv'
  BY <1>1, <1>6 DEF GetHub, ReadAuction, Register, TakeClient, Leave, EndTimer, mapVars, pastVars
<1>7. ASSUME NEW j \in Joiner, GetOrCreateHub(j) PROVE RiseInv'
  <2>1. UNCHANGED <<phase, accepted, lost>>
    BY <1>7 DEF GetOrCreateHub, pastVars
  <2>2. CASE stop = "no" /\ hub = 0
    BY <1>3, <1>7, <2>1, <2>2 DEF GetOrCreateHub, RestoreHub, NewHub
  <2>3. CASE ~(stop = "no" /\ hub = 0)
    BY <1>1, <1>7, <2>1, <2>3 DEF GetOrCreateHub
  <2>. QED
    BY <2>2, <2>3
<1>8. ASSUME NEW g \in HubId, NEW b \in Bid, PlaceBid(g, b) PROVE RiseInv'
  <2>. SUFFICES ASSUME ~lost PROVE RiseInv'
    BY <1>8 DEF PlaceBid, RiseInv
  <2>1. /\ phase # "over" /\ g = 1 /\ hub = made /\ made = 1
        /\ accepted # <<>> => b.price >= Latest.price + LeastIncrement /\ b.sender # Latest.sender
    BY <1>8, JudgedByLatest
  <2>2. accepted' = Append(accepted, b) /\ UNCHANGED <<phase, hub, made, lost>>
    BY <1>8 DEF PlaceBid, mapVars
  <2>3. AcceptedRises' /\ NobodyTwice' /\ Latest' = b
    <3>1. /\ accepted \in Seq(Bid)
          /\ \A i, j \in DOMAIN accepted : i < j => accepted[j].price >= accepted[i].price + LeastIncrement
          /\ \A i \in DOMAIN accepted : i > 1 => accepted[i].sender # accepted[i - 1].sender
      BY DEF TypeOK, RiseInv, AcceptedRises, NobodyTwice
    <3>2. accepted # <<>> => /\ b.price >= accepted[Len(accepted)].price + LeastIncrement
                             /\ b.sender # accepted[Len(accepted)].sender
      BY <2>1 DEF Latest
    <3>3. LET t == accepted'
          IN  /\ \A i, j \in DOMAIN t : i < j => t[j].price >= t[i].price + LeastIncrement
              /\ \A i \in DOMAIN t : i > 1 => t[i].sender # t[i - 1].sender
              /\ t[Len(t)] = b
      BY <2>2, <3>1, <3>2, AcceptedGoesOn
    <3>. QED
      BY <3>3 DEF AcceptedRises, NobodyTwice, Latest
  <2>4. room'[1].highest = b
    <3>1. room \in [HubId -> Room] /\ room' = [room EXCEPT ![g].highest = b]
      BY <1>8 DEF TypeOK, PlaceBid
    <3>. HIDE DEF HubId
    <3>. QED
      BY <2>1, <3>1 DEF Room
  <2>. QED
    BY <2>1, <2>2, <2>3, <2>4 DEF RiseInv
<1>9. ASSUME NEW g \in HubId, NEW n, InsertBid(g, n) \/ LoseInsert(g, n) PROVE RiseInv'
  BY <1>1, <1>9 DEF InsertBid, LoseInsert, mapVars, pastVars
<1>10. ASSUME NEW j \in Joiner, HandleAuctionEnd(j) PROVE RiseInv'
  BY <1>2, <1>10 DEF HandleAuctionEnd, EndsLate, Ended, pastVars
<1>11. CASE performCleanup
  BY <1>2, <1>11 DEF performCleanup, Ended, pastVars
\* A hub that is lost after the end is no loss.
<1>12. CASE DeleteAuction \/ Restart \/ StopHubs
  <2>1. /\ UNCHANGED <<phase, made, accepted>> /\ hub' = 0
        /\ lost' = (lost \/ (hub # 0 /\ phase # "over"))
    BY <1>12 DEF DeleteAuction, Restart, StopHubs, CancelAndDelete, Lose, Ended
  <2>2. CASE lost'
    BY <2>2 DEF RiseInv
  <2>3. CASE ~lost' /\ phase = "over"
    BY <1>2, <2>1, <2>3 DEF TypeOK
  <2>4. CASE ~lost' /\ phase # "over"
    <3>1. ~lost /\ hub = 0
      BY <2>1, <2>4
    <3>. QED
      BY <2>1, <2>4, <3>1 DEF RiseInv, AcceptedRises, NobodyTwice
  <2>. QED
    BY <2>2, <2>3, <2>4
<1>. QED
  BY <1>4, <1>5, <1>6, <1>7, <1>8, <1>9, <1>10, <1>11, <1>12
  DEF Next, RequestStep, HubStep, ServerStep, CreateAuction, JoinAuction

LEMMA BidsStep == TypeOK /\ BidsInv /\ [Next]_vars => BidsInv'
<1>. SUFFICES ASSUME TypeOK, BidsInv, [Next]_vars PROVE BidsInv'
  OBVIOUS
<1>0. PICK f : Places(f)
  BY DEF BidsInv
\* Fewer inserts are under way.
<1>1. ASSUME UNCHANGED <<bids, accepted>>, inserts' \subseteq inserts PROVE BidsInv'
  <2>1. Places(f)'
    BY <1>0, <1>1 DEF Places
  <2>. QED
    BY <1>1, <2>1 DEF BidsInv
<1>2. CASE \/ TimePasses \/ InsertAuction \/ CreateHub \/ performCleanup \/ StopFlag \/ StopHubs
           \/ DeleteAuction \/ Restart \/ MarkAuctionsActive \/ MarkAuctionsEnded \/ UNCHANGED vars
  BY <1>1, <1>2 DEF TimePasses, InsertAuction, CreateHub, performCleanup, StopFlag, StopHubs,
     DeleteAuction, Restart, MarkAuctionsActive, MarkAuctionsEnded, vars, tableVars, pastVars
<1>3. ASSUME NEW j \in Joiner,
             \/ GetHub(j) \/ ReadAuction(j) \/ GetOrCreateHub(j) \/ Register(j) \/ TakeClient(j) \/ Leave(j)
             \/ EndTimer(j) \/ HandleAuctionEnd(j)
      PROVE  BidsInv'
  BY <1>1, <1>3 DEF GetHub, ReadAuction, GetOrCreateHub, Register, TakeClient, Leave, EndTimer,
     HandleAuctionEnd, tableVars, pastVars
<1>4. ASSUME NEW g \in HubId, NEW n, LoseInsert(g, n) PROVE BidsInv'
  BY <1>1, <1>4 DEF LoseInsert, tableVars, pastVars
\* The next number is not in use.
<1>5. ASSUME NEW g \in HubId, NEW b \in Bid, PlaceBid(g, b) PROVE BidsInv'
  <2>. DEFINE n == Len(accepted')
  <2>1. /\ UNCHANGED bids /\ inserts' = inserts \cup {<<g, n>>}
        /\ accepted \in Seq(Bid) /\ accepted' = Append(accepted, b)
    BY <1>5 DEF PlaceBid, tableVars, TypeOK
  <2>2. /\ DOMAIN accepted \subseteq DOMAIN accepted' /\ n \notin DOMAIN accepted
        /\ \A i \in DOMAIN accepted : accepted'[i] = accepted[i]
    BY <2>1, Appended
  <2>3. \A x \in inserts : x[2] \in DOMAIN accepted
    BY DEF TypeOK
  <2>. HIDE DEF n
  <2>4. <<g, n>>[2] = n
    OBVIOUS
  <2>5. \A i \in DOMAIN bids : f[i] \in DOMAIN accepted
    BY <1>0 DEF Places
  <2>6. Places(f)'
    BY <1>0, <2>1, <2>2, <2>4, <2>5 DEF Places
  <2>7. \A x, y \in inserts' : x[2] = y[2] => x = y
    BY <2>1, <2>2, <2>3, <2>4 DEF BidsInv
  <2>. QED
    BY <2>6, <2>7 DEF BidsInv
\* The new row takes the place of the number that was under way.
<1>6. ASSUME NEW g \in HubId, NEW n, InsertBid(g, n) PROVE BidsInv'
  <2>. DEFINE len == Len(bids)
  <2>1. /\ <<g, n>> \in inserts /\ inserts' = inserts \ {<<g, n>>} /\ UNCHANGED accepted
        /\ bids' = Append(bids, Row(accepted[n])) /\ RowAllowed(accepted[n])
    BY <1>6 DEF InsertBid, pastVars
  <2>2. n \in DOMAIN accepted /\ accepted[n] \in Bid /\ <<g, n>>[2] = n
    BY <2>1, Accepted
  <2>3. Row(accepted[n]) \in Bid /\ bids \in Seq(Bid)
    BY <2>1, <2>2, RowTyped, RowsAreBids
  <2>4. /\ len \in Nat /\ DOMAIN bids = 1..len /\ DOMAIN bids' = 1..(len + 1)
        /\ \A i \in 1..len : bids'[i] = bids[i]
        /\ bids'[len + 1] = Row(accepted[n])
    BY <2>1, <2>3, Appended
  <2>. HIDE DEF len
  <2>5. /\ \A i \in 1..len : f[i] \in DOMAIN accepted /\ bids[i] = Row(accepted[f[i]]) /\ f[i] # n
        /\ \A i, k \in 1..len : f[i] = f[k] => i = k
        /\ \A x \in inserts : \A i \in 1..len : f[i] # x[2]
    BY <1>0, <2>1, <2>2, <2>4 DEF Places
  <2>6. /\ \A i \in 1..(len + 1) : i \in 1..len \/ i = len + 1
        /\ \A i \in 1..len : i # len + 1 /\ i \in 1..(len + 1)
    BY <2>4
  <2>7. PICK e \in [1..(len + 1) -> DOMAIN accepted] :
          /\ \A i \in 1..len : e[i] = f[i]
          /\ e[len + 1] = n
    <3>. DEFINE x == [i \in 1..(len + 1) |-> IF i = len + 1 THEN n ELSE f[i]]
    <3>1. /\ x \in [1..(len + 1) -> DOMAIN accepted]
          /\ \A i \in 1..len : x[i] = f[i]
          /\ x[len + 1] = n
      BY <2>2, <2>4, <2>5, <2>6
    <3>. QED
      BY <3>1
  <2>8. \A x \in inserts' : x[2] # n /\ x \in inserts
    BY <2>1, <2>2 DEF BidsInv
  <2>9. Places(e)'
    <3>1. \A i, k \in 1..(len + 1) : e[i] = e[k] => i = k
      BY <2>5, <2>6, <2>7
    <3>2. \A i \in 1..(len + 1) : bids'[i] = Row(accepted[e[i]])
      BY <2>4, <2>5, <2>6, <2>7
    <3>3. \A x \in inserts' : \A i \in 1..(len + 1) : e[i] # x[2]
      BY <2>5, <2>6, <2>7, <2>8
    <3>. QED
      BY <2>1, <2>4, <2>7, <3>1, <3>2, <3>3 DEF Places
  <2>. QED
    BY <2>1, <2>9 DEF BidsInv
<1>. QED
  BY <1>2, <1>3, <1>4, <1>5, <1>6
  DEF Next, RequestStep, HubStep, ServerStep, CreateAuction, JoinAuction

ManagerInv == TypeOK /\ MapInv /\ EndsLate /\ RiseInv /\ BidsInv

LEMMA ManagerInvariant == Spec => []ManagerInv
<1>1. Init => EndsLate /\ RiseInv /\ BidsInv
  <2>. SUFFICES ASSUME Init PROVE EndsLate /\ RiseInv /\ BidsInv
    OBVIOUS
  <2>1. DOMAIN bids = {} /\ DOMAIN accepted = {} /\ inserts = {}
    BY DEF Init
  <2>2. Places([i \in {} |-> i])
    BY <2>1 DEF Places
  <2>. QED
    BY <2>1, <2>2 DEF Init, EndsLate, RiseInv, BidsInv, AcceptedRises, NobodyTwice
<1>2. EndsLate /\ RiseInv /\ BidsInv /\ TypeOK /\ MapInv /\ [Next]_vars => (EndsLate /\ RiseInv /\ BidsInv)'
  BY EndsLateStep, RiseStep, BidsStep
<1>. QED
  BY <1>1, <1>2, MapInvariant, PTL DEF Spec, ManagerInv

\* Until a hub is lost every accepted bid is above the ones before by the
\* increment, and nobody outbids himself, whichever hubs accepted them (hub.go:
\* validateBid; hub_manager.go: who takes a hub away, and when).
THEOREM RisesCorrect == Spec => []RisesUntilLoss
<1>1. ManagerInv => RisesUntilLoss
  BY DEF ManagerInv, RiseInv, RisesUntilLoss
<1>. QED
  BY <1>1, ManagerInvariant, PTL

-----------------------------------------------------------------------------
(* The winner.                                                               *)

\* A table that has as many rows as bids were accepted has the last of them, and
\* none of its rows has a larger amount.
LEMMA AllStored ==
  ASSUME ManagerInv, ~lost, accepted # <<>>, Len(bids) = Len(accepted)
  PROVE  \E f : \E k \in DOMAIN bids :
           /\ Places(f)
           /\ f[k] = Len(accepted) /\ bids[k] = Row(Latest)
           /\ bids[k].price = Stored(Latest.price) /\ bids[k].sender = Latest.sender
           /\ MaxAmount(bids) = Stored(Latest.price)
           /\ \A i \in DOMAIN bids : bids[i].price = Stored(accepted[f[i]].price)
<1>. DEFINE n == Len(accepted)
<1>1. /\ bids \in Seq(Bid) /\ accepted \in Seq(Bid)
      /\ n \in Nat /\ n >= 1 /\ DOMAIN accepted = 1..n /\ DOMAIN bids = 1..n /\ bids # <<>>
  <2>1. TypeOK /\ bids \in Seq(Bid) /\ accepted \in Seq(Bid)
    BY RowsAreBids DEF ManagerInv, TypeOK
  <2>. QED
    BY <2>1, LenProperties, EmptySeq
<1>. HIDE DEF n
<1>2. PICK f : Places(f)
  BY DEF ManagerInv, BidsInv
<1>3. PICK k \in 1..n : f[k] = n
  <2>1. f \in Injection(1..n, 1..n)
    BY <1>1, <1>2 DEF Places, Injection, IsInjective
  <2>2. IsFiniteSet(1..n)
    BY <1>1, FS_Interval
  <2>3. f \in Surjection(1..n, 1..n)
    BY <2>1, <2>2, FS_Injection
  <2>4. n \in 1..n
    BY <1>1
  <2>. QED
    BY <2>3, <2>4 DEF Surjection
<1>4. \A i \in 1..n : /\ accepted[i] \in Bid /\ accepted[i].price \in Nat
                      /\ Stored(accepted[i].price) \in Nat
  <2>1. \A i \in 1..n : accepted[i] \in Bid /\ accepted[i].price \in 1..MaxBidAmount
    BY <1>1, RowsTyped
  <2>2. \A i \in 1..n : accepted[i].price \in Nat
    BY <2>1, BidRulesAssumption
  <2>. QED
    BY <2>1, <2>2, StoredNat
<1>5. ASSUME NEW i \in 1..n
      PROVE  /\ f[i] \in 1..n /\ bids[i] = Row(accepted[f[i]])
             /\ bids[i].price = Stored(accepted[f[i]].price) /\ bids[i].sender = accepted[f[i]].sender
  <2>1. f[i] \in 1..n /\ bids[i] = Row(accepted[f[i]])
    BY <1>1, <1>2 DEF Places
  <2>2. accepted[f[i]] \in Bid
    BY <1>4, <2>1
  <2>. QED
    BY <2>1, <2>2 DEF Row, Bid
<1>6. Latest = accepted[n] /\ n \in 1..n
  BY <1>1 DEF Latest, n
<1>7. ASSUME NEW i \in 1..n PROVE bids[i].price <= Stored(Latest.price)
  <2>. DEFINE p == accepted[f[i]].price
              q == accepted[n].price
  <2>1. p \in Nat /\ q \in Nat
    BY <1>4, <1>5, <1>6
  <2>2. p <= q
    <3>1. CASE f[i] = n
      BY <2>1, <3>1
    <3>2. CASE f[i] # n
      <4>1. f[i] < n
        BY <1>1, <1>5, <3>2
      <4>2. q >= p + LeastIncrement
        BY <1>1, <1>5, <1>6, <4>1 DEF ManagerInv, RiseInv, AcceptedRises
      <4>. HIDE DEF p, q
      <4>. QED
        BY <2>1, <4>2, LeastIncrementFacts
    <3>. QED
      BY <3>1, <3>2
  <2>. HIDE DEF p, q
  <2>3. Stored(p) <= Stored(q)
    BY <2>1, <2>2, StoredInOrder
  <2>. QED
    BY <1>5, <1>6, <2>3 DEF p, q
<1>8. bids[k].price = Stored(Latest.price) /\ bids[k] = Row(Latest) /\ bids[k].sender = Latest.sender
  BY <1>3, <1>5, <1>6
<1>9. MaxAmount(bids) = Stored(Latest.price)
  <2>1. Stored(Latest.price) <= MaxAmount(bids) /\ MaxAmount(bids) \in Price
    BY <1>1, <1>8, MaxAmountFacts
  <2>2. PICK t \in Top(bids) : TRUE
    BY <1>1, MaxAmountFacts
  <2>3. t \in 1..n /\ bids[t].price = MaxAmount(bids)
    BY <1>1, <2>2 DEF Top
  <2>4. MaxAmount(bids) <= Stored(Latest.price)
    BY <1>7, <2>3
  <2>5. MaxAmount(bids) \in Int /\ Stored(Latest.price) \in Int
    BY <1>4, <1>6, <2>1, BidRulesAssumption DEF Price
  <2>. QED
    BY <2>1, <2>4, <2>5
<1>. QED
  BY <1>1, <1>2, <1>3, <1>5, <1>8, <1>9 DEF n

\* Until a hub is lost the last bid that was announced wins an auction whose bids
\* have all been stored, in whatever order they were: it has the amount of the
\* page, its sender counts as a winner, and unless an earlier bid was rounded to
\* the same cent all queries name him (bid.go, auction.go, user.go: their orders and
\* aggregates).
THEOREM AnnouncedCorrect == Spec => []AnnouncedBidWins
<1>1. ManagerInv => AnnouncedBidWins
  <2>. SUFFICES ASSUME ManagerInv, ~lost, status = "ENDED", accepted # <<>>, Len(bids) = Len(accepted)
                PROVE  /\ GetAuctionByID(status, 0, bids).currentPrice = Stored(Latest.price)
                       /\ Won(status, bids, Latest.sender)
                       /\ \/ AllName(Latest.sender)
                          \/ \E n \in 1..Len(accepted) - 1 :
                               Stored(accepted[n].price) = Stored(Latest.price)
    BY DEF AnnouncedBidWins, Latest
  <2>1. /\ bids \in Seq(Bid) /\ bids # <<>> /\ Len(accepted) \in Nat
        /\ DOMAIN accepted = 1..Len(accepted)
    <3>1. TypeOK /\ bids \in Seq(Bid) /\ accepted \in Seq(Bid)
      BY RowsAreBids DEF ManagerInv, TypeOK
    <3>. QED
      BY <3>1, LenProperties, EmptySeq
  <2>2. PICK f, k :
          /\ k \in DOMAIN bids /\ Places(f)
          /\ f[k] = Len(accepted)
          /\ bids[k].price = Stored(Latest.price) /\ bids[k].sender = Latest.sender
          /\ MaxAmount(bids) = Stored(Latest.price)
          /\ \A i \in DOMAIN bids : bids[i].price = Stored(accepted[f[i]].price)
    BY AllStored
  <2>3. GetAuctionByID(status, 0, bids).currentPrice = Stored(Latest.price)
    BY <2>1, <2>2 DEF GetAuctionByID, current_price
  <2>4. k \in Top(bids)
    BY <2>2 DEF Top
  <2>5. Won(status, bids, Latest.sender)
    BY <2>2, <2>4 DEF Won
  \* Without a tie only one row is at the top, and the orders agree.
  <2>6. ASSUME \A n \in 1..Len(accepted) - 1 : Stored(accepted[n].price) # Stored(Latest.price)
        PROVE  AllName(Latest.sender)
    <3>1. ASSUME NEW i \in Top(bids) PROVE i = k
      <4>1. i \in DOMAIN bids /\ Stored(accepted[f[i]].price) = Stored(Latest.price)
        BY <2>2 DEF Top
      <4>2. f[i] \in 1..Len(accepted)
        BY <2>1, <2>2, <4>1 DEF Places
      <4>3. f[i] \notin 1..Len(accepted) - 1
        BY <2>6, <4>1
      <4>4. f[i] = Len(accepted)
        BY <2>1, <4>2, <4>3
      <4>. QED
        BY <2>2, <4>1, <4>4 DEF Places
    <3>2. Top(bids) = {k}
      BY <2>4, <3>1
    <3>3. highest_bidder(bids) = Latest.sender /\ GetHighestBidForAuction(bids).sender = Latest.sender
      BY <2>1, <2>2, <3>2, WinnerAgreed
    <3>4. \A v \in User : Won(status, bids, v) <=> v = Latest.sender
      BY <2>2, <3>2 DEF Won
    <3>5. /\ GetAuctionByID(status, 0, bids).highestBidder = Latest.sender
          /\ GetAllAuctions(status, 0, bids).highestBidder = Latest.sender
      BY <3>3 DEF GetAllAuctions, GetAuctionByID
    <3>6. GetAuctionsByUserID(status, bids).winnerName = Latest.sender
      BY <3>3 DEF GetAuctionsByUserID, winner_name
    <3>7. \A v \in User : \A entry \in GetParticipatedAuctions(status, bids, v) :
            entry.winnerName = Latest.sender
      BY <3>6 DEF GetParticipatedAuctions
    <3>. QED
      BY <3>3, <3>4, <3>5, <3>6, <3>7 DEF AllName
  <2>. QED
    BY <2>3, <2>5, <2>6
<1>. QED
  BY <1>1, ManagerInvariant, PTL
=============================================================================
