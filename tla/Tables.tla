------------------------------- MODULE Tables -------------------------------
(***************************************************************************)
(* What the queries of the three stores compute for one auction from the   *)
(* tables auctions and bids.  The bids of the auction are a sequence in    *)
(* the order of created_at; of the auction's row only its status and its   *)
(* stored client count vary.  Amounts are NUMERIC(10,2): the database      *)
(* rounds to whole cents what the server tells apart more finely.          *)
(***************************************************************************)
EXTENDS BidRules, Sequences, FiniteSets, FiniteSetsExt

CONSTANTS
  Nobody,        \* an absent bidder: NULL, or "" in the answer
  Cent,          \* price steps in one cent
  MaxStored      \* the largest amount NUMERIC(10,2) holds

\* The columns are narrower than what the hub and the validators let through.
ASSUME ColumnAssumption ==
  /\ Cent \in Nat \ {0}
  /\ MaxStored \in 0..MaxBidAmount

Status == {"INACTIVE", "ACTIVE", "ENDED", "CANCELLED"}

\* What a NUMERIC(10,2) column holds of an amount: the nearest cent, up from
\* half a cent.
Stored(price) == Cent * ((2 * price + Cent) \div (2 * Cent))

\* The row of a bid, which is refused when nothing is left of its amount (CHECK
\* amount > 0) or when it is wider than the column.
Row(bid) == [bid EXCEPT !.price = Stored(@)]

RowAllowed(bid) == Row(bid).price \in 1..MaxStored

\* MAX(b.amount), where there is a bid.
MaxAmount(bids) == Max({bids[i].price : i \in DOMAIN bids})

\* The rows that bear it.
Top(bids) == {i \in DOMAIN bids : bids[i].price = MaxAmount(bids)}

\* COALESCE((SELECT MAX(b.amount) ...), a.starting_price)
current_price(bids) == IF bids = <<>> THEN Stored(StartingPrice) ELSE MaxAmount(bids)

\* ORDER BY b.amount DESC, b.created_at ASC LIMIT 1
highest_bidder(bids) == IF bids = <<>> THEN Nobody ELSE bids[Min(Top(bids))].sender

\* SELECT DISTINCT u.id ... FROM bids
participants(bids) == {bids[i].sender : i \in DOMAIN bids}

\* ORDER BY b.amount DESC, b.created_at DESC, among the rows that are left:
\* the next one GetBidsByAuctionID lists.
NextListed(bids, left) ==
  CHOOSE i \in left :
    \A j \in left \ {i} :
      \/ bids[j].price < bids[i].price
      \/ bids[j].price = bids[i].price /\ j < i

\* Faulty variant: the latest bid is taken for the highest.
LatestBid(bids) == bids[Len(bids)]

\* LIMIT 1 of the same order; the caller sees an error when there is no row.
GetHighestBidForAuction(bids) == bids[NextListed(bids, DOMAIN bids)]

-----------------------------------------------------------------------------
(* The answers, in the fields that depend on the bids.                       *)

GetAuctionByID(status, count, bids) ==
  [status |-> status, currentPrice |-> current_price(bids),
   highestBidder |-> highest_bidder(bids), participants |-> participants(bids),
   clientCount |-> count]

\* The stored client count is read and then replaced by 0.
GetAllAuctions(status, count, bids) ==
  [GetAuctionByID(status, count, bids) EXCEPT !.clientCount = 0]

\* The winner, once the auction has ended.
winner_name(status, bids) ==
  IF status = "ENDED" THEN highest_bidder(bids) ELSE Nobody

\* The entry of an auction in its seller's list; here the clients are the bidders.
GetAuctionsByUserID(status, bids) ==
  [winnerName |-> winner_name(status, bids), clientCount |-> Cardinality(participants(bids))]

\* The entry in the list of a user who bid, if he did.
GetParticipatedAuctions(status, bids, u) ==
  {entry \in {GetAuctionsByUserID(status, bids)} : u \in participants(bids)}

\* Whether GetUserStats counts the auction among those that u has won.
Won(status, bids, u) ==
  status = "ENDED" /\ \E i \in DOMAIN bids : i \in Top(bids) /\ bids[i].sender = u
=============================================================================
