---------------------------- MODULE HubBidProofs ----------------------------
(***************************************************************************)
(* What the hub's bid history shows, and that the hub keeps the promise of *)
(* module Auction, for any number of clients and bids and for any prices.  *)
(***************************************************************************)
EXTENDS HubProofs

\* A bid is a record whose price is a number, and so is a highest bid.
LEMMA PricesAreNumbers ==
  /\ \A b \in Bid : b.price \in Nat
  /\ \A b \in HighestBid : b # NoBid => b.price \in Nat
BY BidRulesAssumption DEF Bid, HighestBid, Price

\* What validateBid gives about the bid it lets through.
LEMMA ValidBidRises ==
  ASSUME NEW b \in Bid, NEW start, NEW highest \in HighestBid, NEW isOpen,
         validateBid(b, start, highest, Increment, isOpen)
  PROVE  /\ isOpen
         /\ b.price >= CurrentPrice(start, highest) + Increment
         /\ highest # NoBid => /\ b.price >= highest.price + Increment
                               /\ highest.sender # b.sender
BY DEF validateBid, MinRequired, CurrentPrice

\* A place of a list holds a member of the list's set.
LEMMA EntryTyped ==
  ASSUME NEW S, NEW s \in Seq(S), NEW i \in 1..Len(s)
  PROVE  s[i] \in S
OBVIOUS

\* What one more entry does to the history and to the accepted bids.
LEMMA HistoryGrows ==
  ASSUME bidHistory \in Seq([bid : Bid, accepted : BOOLEAN]),
         NEW b \in Bid, NEW verdict \in BOOLEAN, addBidToHistory(b, verdict)
  PROVE  /\ Len(bidHistory) \in Nat
         /\ Accepted \subseteq 1..Len(bidHistory)
         /\ \A i \in Accepted : bidHistory'[i] = bidHistory[i]
         /\ bidHistory'[Len(bidHistory) + 1] = [bid |-> b, accepted |-> verdict]
         /\ Accepted' = IF verdict THEN Accepted \cup {Len(bidHistory) + 1} ELSE Accepted
<1>. DEFINE n == Len(bidHistory)
<1>1. /\ n \in Nat
      /\ DOMAIN bidHistory = 1..n
      /\ DOMAIN bidHistory' = 1..(n + 1)
      /\ \A i \in 1..n : bidHistory'[i] = bidHistory[i]
      /\ bidHistory'[n + 1] = [bid |-> b, accepted |-> verdict]
  BY DEF addBidToHistory
<1>2. Accepted \subseteq 1..n
  BY <1>1 DEF Accepted
<1>3. Accepted' = {i \in 1..(n + 1) : bidHistory'[i].accepted}
  BY <1>1 DEF Accepted
<1>4. \A i \in 1..(n + 1) : i \in 1..n \/ i = n + 1
  BY <1>1
<1>5. \A i \in 1..(n + 1) :
        bidHistory'[i].accepted <=> (i \in Accepted \/ (i = n + 1 /\ verdict))
  <2>1. \A i \in 1..n : bidHistory'[i].accepted <=> i \in Accepted
    BY <1>1 DEF Accepted
  <2>2. bidHistory'[n + 1].accepted = verdict /\ n + 1 \notin Accepted
    BY <1>1, <1>2
  <2>. QED
    BY <1>1, <1>4, <2>1, <2>2
<1>6. Accepted' = IF verdict THEN Accepted \cup {n + 1} ELSE Accepted
  <2>1. CASE verdict
    <3>1. \A i \in 1..(n + 1) : bidHistory'[i].accepted <=> i \in Accepted \cup {n + 1}
      BY <1>5, <2>1
    <3>2. Accepted \cup {n + 1} \subseteq 1..(n + 1)
      <4>1. 1..n \subseteq 1..(n + 1) /\ n + 1 \in 1..(n + 1)
        BY <1>1
      <4>. QED
        BY <1>2, <4>1
    <3>. QED
      BY <1>3, <2>1, <3>1, <3>2
  <2>2. CASE ~verdict
    <3>1. \A i \in 1..(n + 1) : bidHistory'[i].accepted <=> i \in Accepted
      BY <1>5, <2>2
    <3>2. Accepted \subseteq 1..(n + 1)
      BY <1>1, <1>2
    <3>. QED
      BY <1>3, <2>2, <3>1, <3>2
  <2>. QED
    BY <2>1, <2>2
<1>. QED
  BY <1>1, <1>2, <1>6

\* Entering a refused bid, or one that the rules let through and that becomes
\* the highest, keeps the history rising.
LEMMA EntryKeepsHistory ==
  ASSUME TypeInv, HistoryInv, NEW b \in Bid, NEW verdict \in BOOLEAN,
         addBidToHistory(b, verdict),
         verdict => validateBid(b, StartingPrice, highestBid, Increment, IsOpen) /\ highestBid' = b,
         ~verdict => UNCHANGED highestBid
  PROVE  HistoryInv'
<1>. DEFINE n == Len(bidHistory)
<1>1. /\ bidHistory \in Seq([bid : Bid, accepted : BOOLEAN])
      /\ highestBid \in HighestBid
  BY DEF TypeInv, RestTyped
<1>2. /\ n \in Nat
      /\ Accepted \subseteq 1..n
      /\ \A i \in Accepted : bidHistory'[i] = bidHistory[i]
      /\ bidHistory'[n + 1] = [bid |-> b, accepted |-> verdict]
      /\ Accepted' = IF verdict THEN Accepted \cup {n + 1} ELSE Accepted
  BY <1>1, HistoryGrows
<1>3. /\ \A i, j \in Accepted :
           i < j => bidHistory[j].bid.price >= bidHistory[i].bid.price + Increment
      /\ \A i \in Accepted : (\A j \in Accepted : j <= i) => bidHistory[i].bid = highestBid
      /\ \A i \in Accepted :
           highestBid # NoBid /\ bidHistory[i].bid.price <= highestBid.price
  BY DEF HistoryInv, HistoryRises
<1>4. CASE ~verdict
  <2>1. Accepted' = Accepted /\ highestBid' = highestBid
    BY <1>2, <1>4
  <2>. QED
    BY <1>2, <1>3, <2>1 DEF HistoryInv, HistoryRises
<1>5. CASE verdict
  <2>1. Accepted' = Accepted \cup {n + 1} /\ highestBid' = b
    BY <1>2, <1>5
  <2>2. bidHistory'[n + 1].bid = b
    BY <1>2
  <2>3. b # NoBid /\ b.price \in Nat /\ Increment \in Nat
    BY PricesAreNumbers, BidRulesAssumption, NoBidAssumption DEF Bid, Price
  <2>4. \A i \in Accepted : /\ bidHistory[i].bid.price \in Nat
                            /\ bidHistory[i].bid.price + Increment <= b.price
    <3>. SUFFICES ASSUME NEW i \in Accepted
                  PROVE  /\ bidHistory[i].bid.price \in Nat
                         /\ bidHistory[i].bid.price + Increment <= b.price
      OBVIOUS
    <3>1. bidHistory[i].bid \in Bid
      <4>1. i \in 1..Len(bidHistory)
        BY <1>2
      <4>2. bidHistory[i] \in [bid : Bid, accepted : BOOLEAN]
        BY <1>1, <4>1, EntryTyped
      <4>. QED
        BY <4>2
    <3>2. highestBid # NoBid /\ bidHistory[i].bid.price <= highestBid.price
      BY <1>3
    <3>3. b.price >= highestBid.price + Increment
      BY <1>1, <1>5, <3>2, ValidBidRises
    <3>. QED
      BY <1>1, <2>3, <3>1, <3>2, <3>3, PricesAreNumbers
  <2>5. \A i, j \in Accepted' :
          i < j => bidHistory'[j].bid.price >= bidHistory'[i].bid.price + Increment
    <3>. SUFFICES ASSUME NEW i \in Accepted', NEW j \in Accepted', i < j
                  PROVE  bidHistory'[j].bid.price >= bidHistory'[i].bid.price + Increment
      OBVIOUS
    <3>1. i \in Accepted
      BY <1>2, <2>1
    <3>2. CASE j \in Accepted
      BY <1>2, <1>3, <3>1, <3>2
    <3>3. CASE j = n + 1
      BY <1>2, <2>2, <2>3, <2>4, <3>1, <3>3
    <3>. QED
      BY <2>1, <3>2, <3>3
  <2>6. \A i \in Accepted' :
          (\A j \in Accepted' : j <= i) => bidHistory'[i].bid = highestBid'
    <3>. SUFFICES ASSUME NEW i \in Accepted', \A j \in Accepted' : j <= i
                  PROVE  bidHistory'[i].bid = highestBid'
      OBVIOUS
    <3>1. n + 1 \in Accepted' /\ i \in 1..n \cup {n + 1}
      BY <1>2, <2>1
    <3>2. n + 1 <= i
      BY <3>1
    <3>3. i = n + 1
      BY <1>2, <3>1, <3>2
    <3>. QED
      BY <2>1, <2>2, <3>3
  <2>7. \A i \in Accepted' :
          highestBid' # NoBid /\ bidHistory'[i].bid.price <= highestBid'.price
    BY <1>2, <2>1, <2>2, <2>3, <2>4
  <2>. QED
    BY <2>5, <2>6, <2>7 DEF HistoryInv, HistoryRises
<1>. QED
  BY <1>4, <1>5

\* Only the two ways through handleBid touch the history and the highest bid.
LEMMA BidVarsChange ==
  ASSUME TypeInv, [Next]_vars
  PROVE  \/ UNCHANGED bidVars
         \/ /\ rejectBid
            /\ UNCHANGED highestBid
         \/ acceptBid
<1>1. CASE UNCHANGED vars
  BY <1>1 DEF vars
<1>2. CASE ServerStep
  BY <1>2 DEF ServerStep, CancelFlag, CancelContext, EndTimePasses
<1>3. CASE ConnectionStep
  BY <1>3 DEF ConnectionStep, Register, Unregister, SubmitBid, SendReply, WriteMessage
<1>4. CASE HubStep
  BY <1>4 DEF HubStep, HubWork, handleClientRegistration, handleClientUnregistration,
     broadcastToOthers, sendAuctionDataToClient, sendCurrentBidToClient, rejectBid,
     closeAllClients, bidVars
<1>. QED
  BY <1>1, <1>2, <1>3, <1>4 DEF Next

LEMMA HistoryInvHolds == Spec => []HistoryInv
<1>1. Init => HistoryInv
  BY DEF Init, HistoryInv, HistoryRises, Accepted
<1>2. TypeInv /\ HistoryInv /\ [Next]_vars => HistoryInv'
  <2>. SUFFICES ASSUME TypeInv, HistoryInv, [Next]_vars PROVE HistoryInv'
    OBVIOUS
  <2>1. CASE UNCHANGED bidVars
    BY <2>1 DEF bidVars, HistoryInv, HistoryRises, Accepted
  <2>2. bidCh # <<>> => Head(bidCh) \in Bid
    BY DEF TypeInv, RestTyped
  <2>3. CASE rejectBid /\ UNCHANGED highestBid
    BY <2>2, <2>3, EntryKeepsHistory DEF rejectBid
  <2>4. CASE acceptBid
    BY <2>2, <2>4, EntryKeepsHistory DEF acceptBid
  <2>. QED
    BY <2>1, <2>3, <2>4, BidVarsChange
<1>. QED
  BY <1>1, <1>2, TypeInvHolds, PTL DEF Spec

\* Whatever was refused in between, the bids a hub has accepted rise by at
\* least the increment, and the last of them is its highest bid.
THEOREM HistoryCorrect == Spec => []HistoryRises
<1>1. HistoryInv => HistoryRises
  BY DEF HistoryInv
<1>. QED
  BY <1>1, HistoryInvHolds, PTL

-----------------------------------------------------------------------------
(* The hub implements module Auction.                                        *)

\* A hub starts as an auction that is open and has accepted nothing.
LEMMA InitImplements == Init => A!Init
BY DEF Init, A!Init, A!InitialBid, A!RecoveredBid, InitialBid, RecoveredBid, IsOpen, Ledger,
   Accepted

\* Accepting a bid is Raise.
LEMMA AcceptImplements ==
  ASSUME TypeInv, acceptBid
  PROVE  \E b \in A!Bid : A!Raise(b)
<1>. DEFINE b == Head(bidCh)
<1>1. /\ b \in Bid
      /\ highestBid \in HighestBid
      /\ bidHistory \in Seq([bid : Bid, accepted : BOOLEAN])
  BY DEF TypeInv, RestTyped, acceptBid
<1>2. /\ validateBid(b, StartingPrice, highestBid, Increment, IsOpen)
      /\ addBidToHistory(b, TRUE)
      /\ highestBid' = b
      /\ isActive' = isActive /\ ended' = ended
  BY DEF acceptBid, hubVars
<1>3. /\ IsOpen
      /\ b.price >= CurrentPrice(StartingPrice, highestBid) + Increment
      /\ highestBid # NoBid => highestBid.sender # b.sender
  BY <1>1, <1>2, ValidBidRises
<1>4. Ledger' = Ledger \cup {b}
  <2>. DEFINE n == Len(bidHistory)
  <2>1. /\ \A i \in Accepted : bidHistory'[i] = bidHistory[i]
        /\ bidHistory'[n + 1] = [bid |-> b, accepted |-> TRUE]
        /\ Accepted' = Accepted \cup {n + 1}
    BY <1>1, <1>2, HistoryGrows
  <2>. QED
    BY <2>1 DEF Ledger
<1>5. IsOpen' = IsOpen
  BY <1>2 DEF IsOpen
<1>6. A!Raise(b)
  BY <1>2, <1>3, <1>4, <1>5 DEF A!Raise, A!CurrentPrice, CurrentPrice
<1>7. b \in A!Bid
  BY <1>1 DEF Bid, A!Bid, Price, A!Price
<1>. QED
  BY <1>6, <1>7

\* What changes neither the bids nor the openness is a step of nobody.
LEMMA QuietImplements ==
  ASSUME UNCHANGED bidVars, UNCHANGED <<isActive, ended>>
  PROVE  UNCHANGED A!vars
BY DEF A!vars, bidVars, Ledger, Accepted, IsOpen

\* Every step of the hub is one of the auction, or none at all.
LEMMA StepImplements == TypeInv /\ [Next]_vars => [A!Next]_(A!vars)
<1>. SUFFICES ASSUME TypeInv, [Next]_vars PROVE [A!Next]_(A!vars)
  OBVIOUS
<1>1. CASE acceptBid
  BY <1>1, AcceptImplements DEF A!Next
<1>2. CASE rejectBid /\ UNCHANGED highestBid
  <2>1. bidHistory \in Seq([bid : Bid, accepted : BOOLEAN]) /\ Head(bidCh) \in Bid
    BY <1>2 DEF TypeInv, RestTyped, rejectBid
  <2>2. /\ addBidToHistory(Head(bidCh), FALSE)
        /\ isActive' = isActive /\ ended' = ended
    BY <1>2 DEF rejectBid, hubVars
  <2>3. /\ \A i \in Accepted : bidHistory'[i] = bidHistory[i]
        /\ Accepted' = Accepted
    BY <2>1, <2>2, HistoryGrows
  <2>4. Ledger' = Ledger
    BY <2>3 DEF Ledger
  <2>. QED
    BY <1>2, <2>2, <2>4 DEF A!vars, IsOpen
<1>3. CASE UNCHANGED bidVars
  <2>1. CASE ServerStep
    <3>1. Ledger' = Ledger /\ highestBid' = highestBid
      BY <1>3 DEF bidVars, Ledger, Accepted
    <3>2. IsOpen' = IsOpen \/ (IsOpen /\ ~IsOpen')
      BY <2>1 DEF ServerStep, CancelFlag, CancelContext, EndTimePasses, IsOpen, TypeInv,
         RestTyped
    <3>. QED
      BY <3>1, <3>2 DEF A!vars, A!Next, A!Close
  <2>2. CASE UNCHANGED <<isActive, ended>>
    BY <1>3, <2>2, QuietImplements
  <2>3. UNCHANGED hubVars \/ ServerStep
    <3>1. CASE HubStep
      BY <3>1 DEF HubStep, HubWork, handleClientRegistration, handleClientUnregistration,
         broadcastToOthers, sendAuctionDataToClient, sendCurrentBidToClient, rejectBid,
         acceptBid, closeAllClients
    <3>2. CASE ConnectionStep
      BY <3>2 DEF ConnectionStep, Register, Unregister, SubmitBid, SendReply, WriteMessage
    <3>. QED
      BY <3>1, <3>2 DEF Next, vars
  <2>. QED
    BY <2>1, <2>2, <2>3 DEF hubVars
<1>. QED
  BY <1>1, <1>2, <1>3, BidVarsChange

\* The hub keeps the promise of module Auction: it replaces its highest bid
\* only by a sufficiently higher one of somebody else, and accepts nothing once
\* it is cancelled or its end time has passed.
THEOREM HubImplementsAuction == Spec => ImplementsAuction
BY InitImplements, StepImplements, TypeInvHolds, PTL DEF Spec, ImplementsAuction, A!Spec
=============================================================================
