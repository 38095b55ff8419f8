------------------------------- MODULE Auction -------------------------------
(***************************************************************************)
(* What one hub promises its bidders, apart from goroutines, channels and  *)
(* locks: while the auction is open the highest bid is only ever replaced  *)
(* by a bid of somebody else that is higher by at least the increment; the *)
(* auction closes once and for good, and nothing is accepted after that.   *)
(***************************************************************************)
EXTENDS BidRules

VARIABLES
  best,      \* the highest bid, or NoBid
  ledger,    \* every bid accepted so far
  open       \* bids are still accepted

vars == <<best, ledger, open>>

Init ==
  /\ best \in InitialBid
  /\ ledger = {}
  /\ open = TRUE

Raise(b) ==
  /\ open
  /\ b.price >= CurrentPrice(StartingPrice, best) + Increment
  /\ best # NoBid => b.sender # best.sender
  /\ best' = b
  /\ ledger' = ledger \cup {b}
  /\ UNCHANGED open

Close ==
  /\ open
  /\ open' = FALSE
  /\ UNCHANGED <<best, ledger>>

Next == Close \/ \E b \in Bid : Raise(b)

Spec == Init /\ [][Next]_vars
=============================================================================
