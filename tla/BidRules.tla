------------------------------ MODULE BidRules ------------------------------
(***************************************************************************)
(* The rules by which a hub accepts a bid: what the highest bid may be,    *)
(* what the next bid must reach, and who may place it.                     *)
(*                                                                         *)
(* Amounts are whole numbers of the smallest price step the hub tells      *)
(* apart, which may be a fraction of a cent.  The hub computes in float64; *)
(* what float64 itself rounds is not modelled.                             *)
(***************************************************************************)
EXTENDS Integers

CONSTANTS
  User,            \* the users a bid may name as its sender
  Recovered,       \* the sender the hub manager gives a bid it restores
  NoBid,           \* HighestBid = nil
  StartingPrice,
  Increment,
  MaxBidAmount     \* maxBidAmount, 10_000_000_000_000 in the code

\* An auction is created with a positive price and a positive increment
\* (utils.ValidatePrice); either may be zero in a restored hub, the price because
\* it is cut to an int, the increment because it is less than half a cent.
ASSUME BidRulesAssumption ==
  /\ MaxBidAmount \in Nat
  /\ StartingPrice \in 0..MaxBidAmount
  /\ Increment \in Nat
  /\ Recovered \notin User

Price == 1..MaxBidAmount

\* A bid as a connection submits it.
Bid == [sender : User, price : Price]

\* Faulty variant: a price that was cut to zero counts as a bid.
RecoveredBidOfAny(price) == [sender |-> Recovered, price |-> price]

\* The bid GetOrCreateHub puts in place of the bids a lost hub had accepted.
RecoveredBid(price) ==
  IF price > 0 THEN [sender |-> Recovered, price |-> price] ELSE NoBid

\* What HighestBid may hold.
HighestBid == [sender : User \cup {Recovered}, price : Price] \cup {NoBid}

ASSUME NoBidAssumption ==
  NoBid \notin [sender : User \cup {Recovered}, price : 0..MaxBidAmount]

\* What a hub starts from: nothing (CreateHub, or GetOrCreateHub at price 0)
\* or the restored price (GetOrCreateHub).
InitialBid == {NoBid, RecoveredBid(StartingPrice)}

\* The price every snapshot reports (sendAuctionDataToClient, GetAuctionData).
CurrentPrice(start, highest) == IF highest = NoBid THEN start ELSE highest.price

\* Faulty variant: the next bid only has to match the current price.
MinRequiredWithoutIncrement(start, highest, increment) == CurrentPrice(start, highest)

MinRequired(start, highest, increment) == CurrentPrice(start, highest) + increment

\* Faulty variant: the end of the auction is not looked at.
validateBidAfterEnd(bid, start, highest, increment, isOpen) ==
  /\ bid.price \in Price
  /\ highest # NoBid => highest.sender # bid.sender
  /\ bid.price >= MinRequired(start, highest, increment)

\* Faulty variant: the minimum is not looked at.
validateBidAnyPrice(bid, start, highest, increment, isOpen) ==
  /\ isOpen
  /\ bid.price \in Price
  /\ highest # NoBid => highest.sender # bid.sender

\* The hub's verdict on a bid; isOpen says that the hub is active and that its
\* end time has not passed.
validateBid(bid, start, highest, increment, isOpen) ==
  /\ isOpen
  /\ bid.price \in Price
  /\ highest # NoBid => highest.sender # bid.sender
  /\ bid.price >= MinRequired(start, highest, increment)
=============================================================================
