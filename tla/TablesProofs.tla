---------------------------- MODULE TablesProofs ----------------------------
(***************************************************************************)
(* What the queries of Tables return, for any sequence of bids: the        *)
(* amounts are stored in order, the largest one exists, the orders have a  *)
(* first row, and all of them agree on it when no other has its amount.    *)
(***************************************************************************)
EXTENDS Tables, TLAPS, SequenceTheorems, WellFoundedInduction

\* A set of natural numbers that is not empty has a least element.
LEMMA LeastExists ==
  ASSUME NEW S, S \subseteq Nat, S # {}
  PROVE  \E x \in S : \A y \in S : x <= y
<1>. DEFINE R == {ss \in Nat \X Nat : ss[1] < ss[2]}
<1>1. IsWellFoundedOn(R, Nat)
  BY NatLessThanWellFounded DEF OpToRel
<1>. HIDE DEF R
<1>2. PICK x \in S : \A y \in S : ~(<<y, x>> \in R)
  BY <1>1, WFMin
<1>3. \A y \in S : y < x => <<y, x>> \in R
  BY DEF R
<1>4. ASSUME NEW y \in S PROVE x <= y
  <2>1. ~(y < x)
    BY <1>2, <1>3
  <2>2. x \in Nat /\ y \in Nat
    OBVIOUS
  <2>. QED
    BY <2>1, <2>2
<1>. QED
  BY <1>4

\* One that has an upper bound has a largest.
LEMMA LargestExists ==
  ASSUME NEW n \in Nat, NEW S, S \subseteq 0..n, S # {}
  PROVE  \E x \in S : \A y \in S : x >= y
<1>. DEFINE D == {k \in 0..n : n - k \in S}
<1>1. D \subseteq Nat /\ D # {}
  <2>1. PICK x \in S : TRUE
    OBVIOUS
  <2>2. x \in 0..n
    BY <2>1
  <2>3. n - x \in 0..n /\ n - (n - x) = x
    BY <2>2
  <2>4. n - x \in D
    BY <2>1, <2>3
  <2>5. D \subseteq Nat
    OBVIOUS
  <2>6. D # {}
    BY <2>4
  <2>. QED
    BY <2>5, <2>6
<1>2. PICK d \in D : \A e \in D : d <= e
  <2>. HIDE DEF D
  <2>. QED
    BY <1>1, LeastExists
<1>3. ASSUME NEW y \in S PROVE n - d >= y
  <2>1. n - y \in 0..n /\ n - (n - y) = y
    BY <1>3
  <2>2. n - y \in D
    BY <1>3, <2>1
  <2>3. d <= n - y /\ d \in 0..n
    BY <1>2, <2>2
  <2>. QED
    BY <2>1, <2>3
<1>4. n - d \in S
  BY <1>2
<1>. QED
  BY <1>3, <1>4

-----------------------------------------------------------------------------

\* What a column holds of an amount is an amount ...
LEMMA StoredNat ==
  ASSUME NEW p \in Nat
  PROVE  Stored(p) \in Nat
<1>1. 2 * p + Cent \in Nat /\ 2 * Cent \in Nat /\ 2 * Cent > 0 /\ Cent \in Nat
  BY ColumnAssumption
<1>. DEFINE n == 2 * p + Cent
            d == 2 * Cent
<1>2. n \div d \in Nat
  <2>. HIDE DEF n, d
  <2>. QED
    BY <1>1 DEF n, d
<1>. QED
  BY <1>1, <1>2 DEF Stored

\* ... and two of them are stored in their order.
LEMMA StoredInOrder ==
  ASSUME NEW p \in Nat, NEW q \in Nat, p <= q
  PROVE  Stored(p) <= Stored(q)
<1>. DEFINE m == 2 * p + Cent
            n == 2 * q + Cent
            d == 2 * Cent
<1>1. m \in Nat /\ n \in Nat /\ m <= n /\ d \in Nat /\ d > 0 /\ Cent \in Nat
  BY ColumnAssumption
<1>. DEFINE x == m \div d
            y == n \div d
<1>2. x \in Nat /\ y \in Nat /\ d * x <= m /\ n < d * y + d
  <2>. HIDE DEF m, n, d
  <2>1. m = d * (m \div d) + (m % d) /\ m % d \in 0..d - 1 /\ m \div d \in Nat
    BY <1>1
  <2>2. n = d * (n \div d) + (n % d) /\ n % d \in 0..d - 1 /\ n \div d \in Nat
    BY <1>1
  <2>. QED
    BY <1>1, <2>1, <2>2
<1>. HIDE DEF m, n, d, x, y
<1>3. x <= y
  <2>1. SUFFICES ASSUME y + 1 <= x PROVE FALSE
    BY <1>2
  <2>2. d * (y + 1) <= d * x
    BY <1>1, <1>2, <2>1
  <2>3. d * (y + 1) = d * y + d
    BY <1>1, <1>2
  <2>4. d * x \in Nat /\ d * y \in Nat
    BY <1>1, <1>2
  <2>. QED
    BY <1>1, <1>2, <2>2, <2>3, <2>4
<1>4. Cent * x <= Cent * y
  BY <1>1, <1>2, <1>3
<1>. QED
  BY <1>4 DEF Stored, x, y, m, n, d

\* The row of a bid that the column allows.
LEMMA RowTyped ==
  ASSUME NEW b \in Bid, RowAllowed(b)
  PROVE  /\ Row(b) \in [sender : User, price : 1..MaxStored] /\ Row(b) \in Bid
         /\ Row(b).sender = b.sender /\ Row(b).price = Stored(b.price)
<1>1. Row(b).sender = b.sender /\ Row(b).price = Stored(b.price)
      /\ Row(b) = [sender |-> b.sender, price |-> Stored(b.price)]
  BY DEF Row, Bid
<1>2. b.sender \in User /\ Stored(b.price) \in 1..MaxStored
  BY <1>1 DEF RowAllowed, Bid
<1>3. 1..MaxStored \subseteq Price
  BY ColumnAssumption, BidRulesAssumption DEF Price
<1>. QED
  BY <1>1, <1>2, <1>3 DEF Bid

\* The rows of a table of bids.
LEMMA RowsTyped ==
  ASSUME NEW bids \in Seq(Bid)
  PROVE  /\ Len(bids) \in Nat /\ DOMAIN bids = 1..Len(bids)
         /\ \A i \in DOMAIN bids : /\ bids[i] \in Bid /\ bids[i].sender \in User
                                   /\ bids[i].price \in Price /\ bids[i].price \in 1..MaxBidAmount
         /\ bids # <<>> => 1 \in DOMAIN bids
<1>1. Len(bids) \in Nat /\ DOMAIN bids = 1..Len(bids) /\ (bids # <<>> => Len(bids) >= 1)
  BY LenProperties, EmptySeq
<1>2. \A i \in DOMAIN bids : bids[i] \in Bid
  BY <1>1, ElementOfSeq
<1>. QED
  BY <1>1, <1>2 DEF Bid, Price

\* MAX(b.amount) is the amount of a row, and no row has more.
LEMMA MaxAmountFacts ==
  ASSUME NEW bids \in Seq(Bid), bids # <<>>
  PROVE  /\ MaxAmount(bids) \in Price
         /\ \A i \in DOMAIN bids : bids[i].price <= MaxAmount(bids)
         /\ Top(bids) # {}
<1>. DEFINE A == {bids[i].price : i \in DOMAIN bids}
<1>1. A # {} /\ A \subseteq Price /\ A \subseteq 0..MaxBidAmount /\ MaxBidAmount \in Nat
  BY RowsTyped, BidRulesAssumption DEF Price
<1>. HIDE DEF A
<1>2. \E x \in A : \A y \in A : x >= y
  BY <1>1, LargestExists
<1>3. Max(A) \in A /\ \A y \in A : Max(A) >= y
  BY <1>2 DEF Max
<1>4. MaxAmount(bids) = Max(A)
  BY DEF MaxAmount, A
<1>5. \A i \in DOMAIN bids : bids[i].price \in A
  BY DEF A
<1>6. PICK i \in DOMAIN bids : MaxAmount(bids) = bids[i].price
  BY <1>3, <1>4 DEF A
<1>7. ASSUME NEW j \in DOMAIN bids PROVE bids[j].price <= MaxAmount(bids)
  <2>1. MaxAmount(bids) >= bids[j].price
    BY <1>3, <1>4, <1>5
  <2>2. MaxAmount(bids) \in Int /\ bids[j].price \in Int
    BY <1>6, RowsTyped, BidRulesAssumption DEF Price
  <2>. QED
    BY <2>1, <2>2
<1>. QED
  BY <1>1, <1>3, <1>4, <1>6, <1>7 DEF Top

\* The price of an auction whose row its column allows.
LEMMA CurrentPriceTyped ==
  ASSUME NEW bids \in Seq(Bid), Stored(StartingPrice) \in 1..MaxStored
  PROVE  current_price(bids) \in 0..MaxBidAmount
  BY MaxAmountFacts, BidRulesAssumption, ColumnAssumption DEF current_price, Price

\* The row that ORDER BY b.amount DESC, b.created_at DESC lists next.
LEMMA NextListedFacts ==
  ASSUME NEW bids \in Seq(Bid), NEW left, left \subseteq DOMAIN bids, left # {}
  PROVE  /\ NextListed(bids, left) \in left
         /\ \A j \in left : bids[j].price <= bids[NextListed(bids, left)].price
<1>. DEFINE A == {bids[i].price : i \in left}
            First(i) == \A j \in left \ {i} : \/ bids[j].price < bids[i].price
                                              \/ bids[j].price = bids[i].price /\ j < i
<1>0. /\ Len(bids) \in Nat /\ left \subseteq 1..Len(bids)
      /\ \A i \in left : bids[i].price \in 1..MaxBidAmount
      /\ MaxBidAmount \in Nat
  BY RowsTyped, BidRulesAssumption
<1>1. PICK m \in A : \A x \in A : m >= x
  <2>1. A # {} /\ A \subseteq 0..MaxBidAmount
    BY <1>0
  <2>. HIDE DEF A
  <2>. QED
    BY <1>0, <2>1, LargestExists
<1>. DEFINE T == {i \in left : bids[i].price = m}
<1>2. PICK t \in T : \A x \in T : t >= x
  <2>1. T # {} /\ T \subseteq 0..Len(bids)
    BY <1>0, <1>1
  <2>. HIDE DEF T
  <2>. QED
    BY <1>0, <2>1, LargestExists
<1>3. t \in left /\ First(t)
  <2>1. t \in left /\ bids[t].price = m /\ m \in 1..MaxBidAmount
    BY <1>0, <1>2
  <2>2. ASSUME NEW j \in left \ {t}
        PROVE  bids[j].price < bids[t].price \/ (bids[j].price = bids[t].price /\ j < t)
    <3>1. bids[j].price <= m /\ bids[j].price \in 1..MaxBidAmount
      BY <1>0, <1>1, <2>1
    <3>2. CASE bids[j].price = m
      BY <1>0, <1>2, <2>1, <3>2
    <3>3. CASE bids[j].price # m
      BY <1>0, <2>1, <3>1, <3>3
    <3>. QED
      BY <3>2, <3>3
  <2>. QED
    BY <2>1, <2>2
<1>4. NextListed(bids, left) = CHOOSE i \in left : First(i)
  BY DEF NextListed
<1>5. NextListed(bids, left) \in left /\ First(NextListed(bids, left))
  <2>. HIDE DEF First
  <2>. QED
    BY <1>3, <1>4
<1>. QED
  BY <1>0, <1>5

-----------------------------------------------------------------------------
\* One of the rows that bear the largest amount is the winner of the mails.
LEMMA HighestIsTop ==
  ASSUME NEW bids \in Seq(Bid), bids # <<>>
  PROVE  \E t \in Top(bids) : GetHighestBidForAuction(bids) = bids[t]
<1>. DEFINE n == NextListed(bids, DOMAIN bids)
<1>1. PICK t \in Top(bids) : TRUE
  BY MaxAmountFacts
<1>2. t \in DOMAIN bids /\ bids[t].price = MaxAmount(bids)
  BY <1>1 DEF Top
<1>3. n \in DOMAIN bids /\ bids[t].price <= bids[n].price
  BY <1>2, NextListedFacts
<1>4. bids[n].price <= bids[t].price
  BY <1>2, <1>3, MaxAmountFacts
<1>5. bids[n].price = bids[t].price
  BY <1>2, <1>3, <1>4, RowsTyped
<1>. QED
  BY <1>2, <1>3, <1>5 DEF Top, GetHighestBidForAuction

\* All the orders agree where only one row bears the largest amount.
LEMMA WinnerAgreed ==
  ASSUME NEW bids \in Seq(Bid), bids # <<>>, NEW t \in DOMAIN bids, Top(bids) = {t}
  PROVE  /\ highest_bidder(bids) = bids[t].sender
         /\ GetHighestBidForAuction(bids) = bids[t]
<1>1. Min(Top(bids)) = t
  <2>1. \E x \in {t} : \A y \in {t} : x <= y
    BY RowsTyped
  <2>2. Min({t}) \in {t}
    BY <2>1 DEF Min
  <2>. QED
    BY <2>2
<1>. QED
  BY <1>1, HighestIsTop DEF highest_bidder
=============================================================================
