---------------------------- MODULE HubPriceProofs ----------------------------
(***************************************************************************)
(* What a hub's clients are told of the price, for any number of clients   *)
(* and any capacities, as long as no connection asks for it: an answer to  *)
(* such a request holds the price of the moment the request was read, and  *)
(* may reach the client's Send channel after a later one.                  *)
(***************************************************************************)
EXTENDS HubBidProofs

\* What a connection does that asks for no price.
QuietConnectionStep ==
  \E c \in Client :
    \/ Register(c)
    \/ Unregister(c)
    \/ \E b \in BidsOf(c) : SubmitBid(c, b)
    \/ \E m \in Message : ~ShowsPrice(m) /\ SendReply(c, m)
    \/ WriteMessage(c)

QuietNext == HubStep \/ ServerStep \/ QuietConnectionStep

\* Connections whose answers show no price do nothing else.
LEMMA QuietReplies ==
  ASSUME \A m \in Reply : ~ShowsPrice(m)
  PROVE  [Next]_vars => [QuietNext]_vars
<1>1. Reply \subseteq Message
  BY HubAssumption
<1>. QED
  BY <1>1 DEF Next, ConnectionStep, QuietNext, QuietConnectionStep

-----------------------------------------------------------------------------
(* The last price of a channel.                                              *)

LEMMA AppendedPriceIsLast ==
  ASSUME NEW s \in Seq(Message), NEW before, NEW b
  PROVE  LastPrice(Append(s, PriceMsg(b)), before, b)
<1>. DEFINE t == Append(s, PriceMsg(b))
            n == Len(s) + 1
<1>1. DOMAIN t = 1..n /\ n \in 1..n /\ t[n] = PriceMsg(b)
  OBVIOUS
<1>2. ShowsPrice(t[n]) /\ t[n].bid = b
  BY <1>1 DEF ShowsPrice, PriceMsg
<1>3. \A j \in DOMAIN t : j <= n
  BY <1>1
<1>. HIDE DEF t, n
<1>4. LastPrice(t, before, b)
  BY <1>1, <1>2, <1>3 DEF LastPrice
<1>. QED
  BY <1>4 DEF t

LEMMA OtherMessageKeepsLast ==
  ASSUME NEW s \in Seq(Message), NEW before, NEW b, NEW m, ~ShowsPrice(m),
         LastPrice(s, before, b)
  PROVE  LastPrice(Append(s, m), before, b)
<1>. DEFINE t == Append(s, m)
            prices == {i \in DOMAIN s : ShowsPrice(s[i])}
<1>1. /\ DOMAIN t = 1..(Len(s) + 1)
      /\ DOMAIN s = 1..Len(s)
      /\ Len(s) \in Nat
      /\ \A i \in DOMAIN s : i \in DOMAIN t /\ t[i] = s[i]
      /\ t[Len(s) + 1] = m
  OBVIOUS
<1>2. \A i \in DOMAIN t : i \in DOMAIN s \/ i = Len(s) + 1
  BY <1>1
<1>. HIDE DEF t
<1>3. {i \in DOMAIN t : ShowsPrice(t[i])} = prices
  BY <1>1, <1>2
<1>4. \A i \in prices : t[i] = s[i]
  BY <1>1
<1>5. LastPrice(t, before, b)
  BY <1>3, <1>4 DEF LastPrice
<1>. QED
  BY <1>5 DEF t

\* What WritePump does: it takes the first message, and shows its price.
LEMMA TakingKeepsLast ==
  ASSUME NEW s \in Seq(Message), s # <<>>, NEW before, NEW b, LastPrice(s, before, b)
  PROVE  LastPrice(Tail(s), IF ShowsPrice(Head(s)) THEN Head(s).bid ELSE before, b)
<1>. DEFINE t == Tail(s)
            prices == {i \in DOMAIN s : ShowsPrice(s[i])}
            rest == {i \in DOMAIN t : ShowsPrice(t[i])}
<1>1. /\ DOMAIN s = 1..Len(s)
      /\ Len(s) \in Nat /\ Len(s) >= 1
      /\ DOMAIN t = 1..(Len(s) - 1)
      /\ \A i \in DOMAIN t : t[i] = s[i + 1]
      /\ Head(s) = s[1]
  OBVIOUS
<1>. HIDE DEF t
<1>2. \A i \in Nat : i \in rest <=> i >= 1 /\ i + 1 \in prices
  BY <1>1
<1>3. prices \subseteq Nat /\ rest \subseteq Nat /\ 0 \notin prices
  BY <1>1
<1>4. CASE prices = {}
  <2>1. rest = {} /\ before = b /\ ~ShowsPrice(Head(s))
    BY <1>1, <1>2, <1>3, <1>4 DEF LastPrice
  <2>. QED
    BY <2>1 DEF LastPrice, t
<1>5. CASE \E i \in prices : s[i].bid = b /\ \A j \in prices : j <= i
  <2>1. PICK i \in prices : s[i].bid = b /\ \A j \in prices : j <= i
    BY <1>5
  <2>2. CASE i = 1
    <3>1. rest = {} /\ ShowsPrice(Head(s)) /\ Head(s).bid = b
      BY <1>1, <1>2, <1>3, <2>1, <2>2
    <3>. QED
      BY <3>1 DEF LastPrice, t
  <2>3. CASE i # 1
    <3>1. i \in Nat /\ i >= 2 /\ i - 1 \in Nat /\ (i - 1) + 1 = i
      BY <1>3, <2>1, <2>3
    <3>2. i - 1 \in rest
      BY <1>2, <2>1, <3>1
    <3>3. t[i - 1].bid = b
      BY <1>1, <2>1, <3>1, <3>2
    <3>4. \A j \in rest : j <= i - 1
      BY <1>2, <1>3, <2>1, <3>1
    <3>. QED
      BY <3>2, <3>3, <3>4 DEF LastPrice, t
  <2>. QED
    BY <2>2, <2>3
<1>. QED
  BY <1>4, <1>5 DEF LastPrice

-----------------------------------------------------------------------------
(* What the hub's sends leave in the channels.                               *)

\* A channel gets the message, or stays as it is; unless the process died, a
\* client that is still a member got it.
LEMMA SendEffect ==
  ASSUME MembersTyped, NEW c \in Client, NEW m, NEW why, why # "none",
         sendOrRemove(c, m, why)
  PROVE  /\ \A d \in Client \ {c} : send'[d] = send[d]
         /\ send'[c] \in {send[c], Append(send[c], m)}
         /\ clients' \subseteq clients
         /\ panic' = "none" /\ c \in clients' => send'[c] = Append(send[c], m)
<1>1. CASE c \in closed
  BY <1>1 DEF sendOrRemove
<1>2. CASE send' = Give({c}, m) /\ UNCHANGED memberVars
  BY <1>2 DEF Give, memberVars
<1>3. CASE removeClientUnsafe({c}) /\ UNCHANGED send
  BY <1>3 DEF removeClientUnsafe
<1>. QED
  BY <1>1, <1>2, <1>3 DEF sendOrRemove

\* So does a broadcast.
LEMMA BroadcastEffect ==
  ASSUME MembersTyped, NEW m, broadcastUnsafe(m)
  PROVE  /\ \A d \in Client : send'[d] \in {send[d], Append(send[d], m)}
         /\ clients' \subseteq clients
         /\ panic' = "none" => \A d \in clients' : send'[d] = Append(send[d], m)
<1>. DEFINE slow == {c \in clients : Full(c)}
<1>1. CASE panic' = "broadcast" /\ UNCHANGED <<send, clients, closed>>
  BY <1>1
<1>2. CASE send' = Give(clients \ slow, m) /\ removeClientUnsafe(slow)
  <2>1. clients' = clients \ slow /\ clients \subseteq Client
    BY <1>2 DEF removeClientUnsafe, MembersTyped
  <2>. QED
    BY <1>2, <2>1 DEF Give
<1>. QED
  BY <1>1, <1>2 DEF broadcastUnsafe

\* And so does what one of a bidder's connections is told.
LEMMA BidderEffect ==
  ASSUME MembersTyped, NEW m, NEW user, sendToBidderUnsafe(m, user)
  PROVE  /\ \A d \in Client : send'[d] \in {send[d], Append(send[d], m)}
         /\ clients' \subseteq clients
<1>. DEFINE his == {c \in clients : UserOf[c] = user}
<1>1. CASE his = {}
  BY <1>1 DEF sendToBidderUnsafe, memberVars
<1>2. CASE his # {}
  <2>1. PICK c \in his : sendOrRemove(c, m, "broadcast")
    BY <1>2 DEF sendToBidderUnsafe
  <2>2. c \in Client
    BY DEF MembersTyped
  <2>3. /\ \A d \in Client \ {c} : send'[d] = send[d]
        /\ send'[c] \in {send[c], Append(send[c], m)}
        /\ clients' \subseteq clients
    BY <2>1, <2>2, SendEffect
  <2>. QED
    BY <2>3
<1>. QED
  BY <1>1, <1>2

-----------------------------------------------------------------------------
(* Every member is told.                                                     *)

\* Outside of a registration every member has been sent the highest bid; the
\* hub goroutine holds a client only while it registers one.
InformedInv ==
  /\ hpc \notin {"join", "joinBid"} => hcur = NoClient
  /\ MembersInformed

\* Messages without a price take nothing from what a client was told.
LEMMA OtherMessagesInform ==
  ASSUME TypeInv, InformedInv, NEW m, ~ShowsPrice(m),
         \A d \in Client : send'[d] \in {send[d], Append(send[d], m)},
         clients' \subseteq clients,
         panic' = "none" => Alive,
         UNCHANGED <<shown, highestBid>>,
         \/ UNCHANGED <<hpc, hcur>>
         \/ UNCHANGED hcur /\ hpc \notin {"join", "joinBid"}
                           /\ hpc' \notin {"join", "joinBid"}
  PROVE  InformedInv'
<1>1. SUFFICES ASSUME Alive', NEW c \in clients' \ {hcur'}
               PROVE  LastPrice(send'[c], shown'[c], highestBid')
  BY DEF InformedInv, MembersInformed
<1>2. c \in Client /\ send[c] \in Seq(Message)
  BY DEF TypeInv, MembersTyped
<1>3. LastPrice(send[c], shown[c], highestBid)
  BY <1>1 DEF Alive, InformedInv, MembersInformed
<1>4. LastPrice(send'[c], shown[c], highestBid)
  BY <1>2, <1>3, OtherMessageKeepsLast
<1>. QED
  BY <1>4

LEMMA HubStepInforms == TypeInv /\ InformedInv /\ HubStep => InformedInv'
<1>. SUFFICES ASSUME TypeInv, InformedInv, HubStep PROVE InformedInv'
  OBVIOUS
<1>a. /\ MembersTyped
      /\ ~ShowsPrice(Notice) /\ ~ShowsPrice(ErrorMsg)
      /\ NoClient \notin Client
      /\ clients \subseteq Client
      /\ \A c \in Client : send[c] \in Seq(Message)
  BY HubAssumption DEF TypeInv, MembersTyped, ShowsPrice, Notice, ErrorMsg
<1>1. CASE handleClientRegistration
  <2>1. /\ hcur = NoClient /\ Alive /\ hpc' = "join"
        /\ clients' = clients \cup {hcur'}
        /\ UNCHANGED <<send, shown, highestBid, panic>>
    BY <1>1 DEF handleClientRegistration, Selecting, InformedInv, bidVars, connVars
  <2>. QED
    BY <1>a, <2>1 DEF InformedInv, MembersInformed, Alive
<1>2. CASE handleClientUnregistration
  <2>1. /\ hcur = NoClient /\ Alive /\ hpc = "select"
        /\ hpc' \in {"select", "leave"}
        /\ clients' \subseteq clients
        /\ UNCHANGED <<hcur, send, shown, highestBid>>
    BY <1>2 DEF handleClientUnregistration, removeClientUnsafe, Selecting, InformedInv,
       bidVars, connVars
  <2>. QED
    BY <1>a, <2>1 DEF InformedInv, MembersInformed, Alive
<1>3. ASSUME NEW d \in Client, broadcastToOthers(d) PROVE InformedInv'
  <2>1. /\ sendOrRemove(d, Notice, "broadcast")
        /\ Alive
        /\ UNCHANGED <<hcur, shown, highestBid>>
        /\ hpc' = hpc \/ (hpc = "leave" /\ hpc' = "select")
    BY <1>3 DEF broadcastToOthers, bidVars, connVars
  <2>2. /\ \A c \in Client : send'[c] \in {send[c], Append(send[c], Notice)}
        /\ clients' \subseteq clients
    BY <1>a, <2>1, SendEffect
  <2>. QED
    BY <1>a, <2>1, <2>2, OtherMessagesInform
<1>4. CASE sendAuctionDataToClient \/ sendCurrentBidToClient
  <2>1. /\ sendOrRemove(hcur, PriceMsg(highestBid), "join")
        /\ Alive
        /\ hcur \in Client
        /\ UNCHANGED <<shown, highestBid>>
        /\ \/ hpc' = "joinBid" /\ hcur' = hcur
           \/ hpc' = "select" /\ hcur' = NoClient
    BY <1>4 DEF sendAuctionDataToClient, sendCurrentBidToClient, bidVars, connVars, TypeInv,
       JoiningTyped
  <2>2. /\ \A d \in Client \ {hcur} : send'[d] = send[d]
        /\ clients' \subseteq clients
        /\ panic' = "none" /\ hcur \in clients' =>
             send'[hcur] = Append(send[hcur], PriceMsg(highestBid))
    BY <1>a, <2>1, SendEffect
  <2>3. ASSUME Alive', NEW c \in clients' PROVE LastPrice(send'[c], shown[c], highestBid)
    <3>1. CASE c = hcur
      BY <1>a, <2>1, <2>2, <2>3, <3>1, AppendedPriceIsLast DEF Alive
    <3>2. CASE c # hcur
      BY <1>a, <2>1, <2>2, <2>3, <3>2 DEF InformedInv, MembersInformed
    <3>. QED
      BY <3>1, <3>2
  <2>. QED
    BY <2>1, <2>3 DEF InformedInv, MembersInformed
<1>5. CASE rejectBid
  <2>1. /\ sendToBidderUnsafe(ErrorMsg, Head(bidCh).sender)
        /\ Alive
        /\ UNCHANGED <<hpc, hcur, shown, highestBid>>
    BY <1>5 DEF rejectBid, Selecting, pcVars, connVars
  <2>2. /\ \A c \in Client : send'[c] \in {send[c], Append(send[c], ErrorMsg)}
        /\ clients' \subseteq clients
    BY <1>a, <2>1, BidderEffect
  <2>. QED
    BY <1>a, <2>1, <2>2, OtherMessagesInform
<1>6. CASE acceptBid
  <2>1. /\ broadcastUnsafe(PriceMsg(highestBid'))
        /\ UNCHANGED <<hpc, hcur, shown>>
    BY <1>6 DEF acceptBid, pcVars, connVars
  <2>2. /\ clients' \subseteq clients
        /\ panic' = "none" =>
             \A d \in clients' : send'[d] = Append(send[d], PriceMsg(highestBid'))
    BY <1>a, <2>1, BroadcastEffect
  <2>3. ASSUME Alive', NEW c \in clients' PROVE LastPrice(send'[c], shown[c], highestBid')
    BY <1>a, <2>2, <2>3, AppendedPriceIsLast DEF Alive
  <2>. QED
    BY <2>1, <2>3 DEF InformedInv, MembersInformed
<1>7. CASE closeAllClients
  <2>1. /\ hcur = NoClient /\ hcur' = hcur /\ clients' = {}
    BY <1>7 DEF closeAllClients, Selecting, InformedInv
  <2>. QED
    BY <2>1 DEF InformedInv, MembersInformed
<1>. QED
  BY <1>1, <1>2, <1>3, <1>4, <1>5, <1>6, <1>7 DEF HubStep, HubWork

LEMMA QuietConnectionInforms ==
  TypeInv /\ InformedInv /\ QuietConnectionStep => InformedInv'
<1>. SUFFICES ASSUME TypeInv, InformedInv, NEW c \in Client,
                     \/ Register(c)
                     \/ Unregister(c)
                     \/ \E b \in BidsOf(c) : SubmitBid(c, b)
                     \/ \E m \in Message : ~ShowsPrice(m) /\ SendReply(c, m)
                     \/ WriteMessage(c)
              PROVE  InformedInv'
  BY DEF QuietConnectionStep
<1>1. CASE Register(c) \/ Unregister(c) \/ \E b \in BidsOf(c) : SubmitBid(c, b)
  BY <1>1 DEF Register, Unregister, SubmitBid, memberVars, bidVars, pcVars, connVars,
     InformedInv, MembersInformed, Alive
<1>2. ASSUME NEW m \in Message, ~ShowsPrice(m), SendReply(c, m) PROVE InformedInv'
  <2>1. /\ UNCHANGED <<clients, hpc, hcur, shown, highestBid>>
        /\ Alive
        /\ \/ send' = Give({c}, m)
           \/ UNCHANGED send
    BY <1>2 DEF SendReply, bidVars, pcVars, connVars
  <2>2. \A d \in Client : send'[d] \in {send[d], Append(send[d], m)}
    BY <2>1 DEF Give
  <2>. QED
    BY <1>2, <2>1, <2>2, OtherMessagesInform
<1>3. CASE WriteMessage(c)
  <2>1. /\ UNCHANGED <<clients, panic, hpc, hcur, highestBid>>
        /\ Alive
        /\ send[c] # <<>> /\ send[c] \in Seq(Message)
        /\ send'[c] = Tail(send[c])
        /\ shown'[c] = IF ShowsPrice(Head(send[c])) THEN Head(send[c]).bid ELSE shown[c]
        /\ \A d \in Client \ {c} : send'[d] = send[d] /\ shown'[d] = shown[d]
    BY <1>3 DEF WriteMessage, memberVars, bidVars, pcVars, TypeInv, MembersTyped, RestTyped
  <2>2. clients \subseteq Client
    BY DEF TypeInv, MembersTyped
  <2>3. ASSUME NEW d \in clients \ {hcur} PROVE LastPrice(send'[d], shown'[d], highestBid)
    <3>1. LastPrice(send[d], shown[d], highestBid)
      BY <2>1 DEF InformedInv, MembersInformed
    <3>2. CASE d = c
      BY <2>1, <3>1, <3>2, TakingKeepsLast
    <3>. QED
      BY <2>1, <2>2, <3>1, <3>2
  <2>. QED
    BY <2>1, <2>3 DEF InformedInv, MembersInformed
<1>. QED
  BY <1>1, <1>2, <1>3

LEMMA QuietStepInforms == TypeInv /\ InformedInv /\ [QuietNext]_vars => InformedInv'
<1>1. InformedInv /\ UNCHANGED vars => InformedInv'
  BY DEF vars, memberVars, bidVars, pcVars, connVars, InformedInv, MembersInformed, Alive
<1>2. InformedInv /\ ServerStep => InformedInv'
  BY DEF ServerStep, CancelFlag, CancelContext, EndTimePasses, memberVars, bidVars, pcVars,
     connVars, InformedInv, MembersInformed, Alive
<1>. QED
  BY <1>1, <1>2, HubStepInforms, QuietConnectionInforms DEF QuietNext

LEMMA InitInformed == Init => InformedInv
BY DEF Init, InformedInv, MembersInformed

\* Whatever the clients' speed and whenever they join, leave and bid: as long as
\* no connection asks for the price, every member but the one being registered
\* has been sent the highest bid, and was sent it last.
THEOREM MembersCorrect ==
  ASSUME \A m \in Reply : ~ShowsPrice(m)
  PROVE  Spec => []MembersInformed
<1>1. [Next]_vars => [QuietNext]_vars
  BY QuietReplies
<1>2. TypeInv /\ InformedInv /\ [Next]_vars => InformedInv'
  BY <1>1, QuietStepInforms
<1>3. InformedInv => MembersInformed
  BY DEF InformedInv
<1>. QED
  BY <1>2, <1>3, InitInformed, TypeInvHolds, PTL DEF Spec

-----------------------------------------------------------------------------
(* Prices are told in order.                                                 *)

\* The price a highest bid stands for in every message.
PriceOf(b) == CurrentPrice(StartingPrice, b)

LEMMA PriceOfIsNumber == \A b \in HighestBid : PriceOf(b) \in Nat
BY PricesAreNumbers, BidRulesAssumption DEF PriceOf, CurrentPrice

\* The prices in a channel rise, from the one shown before them up to top's.
Rising(channel, before, top) ==
  /\ PriceOf(before) <= PriceOf(top)
  /\ \A i \in DOMAIN channel :
       ShowsPrice(channel[i]) => /\ PriceOf(before) <= PriceOf(channel[i].bid)
                                 /\ PriceOf(channel[i].bid) <= PriceOf(top)
  /\ \A i, j \in DOMAIN channel :
       i < j /\ ShowsPrice(channel[i]) /\ ShowsPrice(channel[j])
         => PriceOf(channel[i].bid) <= PriceOf(channel[j].bid)

\* A channel may take any message without a price, and the price of a bid that
\* is no lower than the top.
LEMMA AppendingKeepsRising ==
  ASSUME NEW s \in Seq(Message), NEW before \in HighestBid, NEW top \in HighestBid,
         NEW new \in HighestBid, PriceOf(top) <= PriceOf(new), NEW m \in Message,
         ShowsPrice(m) => m.bid = new, Rising(s, before, top)
  PROVE  Rising(s, before, new) /\ Rising(Append(s, m), before, new)
<1>. DEFINE t == Append(s, m)
            n == Len(s) + 1
<1>1. /\ DOMAIN t = 1..n
      /\ DOMAIN s = 1..Len(s)
      /\ Len(s) \in Nat
      /\ \A i \in DOMAIN s : i \in DOMAIN t /\ t[i] = s[i]
      /\ t[n] = m
  OBVIOUS
<1>2. \A i \in DOMAIN t : i \in Nat /\ (i \in DOMAIN s \/ i = n)
  BY <1>1
<1>3. \A i \in DOMAIN s : i < n
  BY <1>1
<1>4. \A i \in DOMAIN s : s[i].bid \in HighestBid
  BY RulesTyped DEF Message
<1>5. PriceOf(before) \in Nat /\ PriceOf(top) \in Nat /\ PriceOf(new) \in Nat
  BY PriceOfIsNumber
<1>6. \A i \in DOMAIN s : PriceOf(s[i].bid) \in Nat
  BY <1>4, PriceOfIsNumber
<1>7. PriceOf(before) <= PriceOf(new)
  BY <1>5 DEF Rising
<1>8. \A i \in DOMAIN s :
        ShowsPrice(s[i]) => /\ PriceOf(before) <= PriceOf(s[i].bid)
                            /\ PriceOf(s[i].bid) <= PriceOf(new)
  BY <1>5, <1>6 DEF Rising
<1>9. Rising(s, before, new)
  BY <1>7, <1>8 DEF Rising
<1>. HIDE DEF t, n
<1>10. \A i \in DOMAIN t :
         ShowsPrice(t[i]) => /\ PriceOf(before) <= PriceOf(t[i].bid)
                             /\ PriceOf(t[i].bid) <= PriceOf(new)
  <2>. SUFFICES ASSUME NEW i \in DOMAIN t, ShowsPrice(t[i])
                PROVE  /\ PriceOf(before) <= PriceOf(t[i].bid)
                       /\ PriceOf(t[i].bid) <= PriceOf(new)
    OBVIOUS
  <2>1. CASE i \in DOMAIN s
    BY <1>1, <1>8, <2>1
  <2>2. CASE i = n
    BY <1>1, <1>5, <1>7, <2>2
  <2>. QED
    BY <1>2, <2>1, <2>2
<1>11. \A i, j \in DOMAIN t :
         i < j /\ ShowsPrice(t[i]) /\ ShowsPrice(t[j])
           => PriceOf(t[i].bid) <= PriceOf(t[j].bid)
  <2>. SUFFICES ASSUME NEW i \in DOMAIN t, NEW j \in DOMAIN t, i < j,
                       ShowsPrice(t[i]), ShowsPrice(t[j])
                PROVE  PriceOf(t[i].bid) <= PriceOf(t[j].bid)
    OBVIOUS
  <2>1. i \in DOMAIN s
    <3>1. \A k \in DOMAIN t : k <= n
      BY <1>1, <1>2
    <3>. QED
      BY <1>1, <1>2, <3>1
  <2>2. CASE j \in DOMAIN s
    BY <1>1, <1>9, <2>1, <2>2 DEF Rising
  <2>3. CASE j = n
    BY <1>1, <1>8, <2>1, <2>3
  <2>. QED
    BY <1>2, <2>2, <2>3
<1>12. Rising(t, before, new)
  BY <1>7, <1>10, <1>11 DEF Rising
<1>. QED
  BY <1>9, <1>12 DEF t

\* WritePump takes the first message: the price it shows is no lower than the
\* one before, and the rest goes on from there.
LEMMA TakingKeepsRising ==
  ASSUME NEW s \in Seq(Message), s # <<>>, NEW before \in HighestBid,
         NEW top \in HighestBid, Rising(s, before, top),
         NEW now, now = IF ShowsPrice(Head(s)) THEN Head(s).bid ELSE before
  PROVE  PriceOf(before) <= PriceOf(now) /\ Rising(Tail(s), now, top)
<1>. DEFINE t == Tail(s)
<1>1. /\ DOMAIN s = 1..Len(s)
      /\ Len(s) \in Nat /\ Len(s) >= 1
      /\ DOMAIN t = 1..(Len(s) - 1)
      /\ \A i \in DOMAIN t : t[i] = s[i + 1]
      /\ Head(s) = s[1]
  OBVIOUS
<1>2. PriceOf(before) \in Nat
  BY PriceOfIsNumber
<1>. HIDE DEF t
<1>3. \A i \in DOMAIN t : i \in Nat /\ i + 1 \in DOMAIN s /\ 1 < i + 1
  BY <1>1
<1>4. 1 \in DOMAIN s
  BY <1>1
<1>5. \A i, j \in DOMAIN t :
        i < j /\ ShowsPrice(t[i]) /\ ShowsPrice(t[j])
          => PriceOf(t[i].bid) <= PriceOf(t[j].bid)
  <2>. SUFFICES ASSUME NEW i \in DOMAIN t, NEW j \in DOMAIN t, i < j,
                       ShowsPrice(t[i]), ShowsPrice(t[j])
                PROVE  PriceOf(t[i].bid) <= PriceOf(t[j].bid)
    OBVIOUS
  <2>1. i + 1 \in DOMAIN s /\ j + 1 \in DOMAIN s /\ i + 1 < j + 1
    BY <1>3
  <2>2. t[i] = s[i + 1] /\ t[j] = s[j + 1]
    BY <1>1
  <2>. QED
    BY <2>1, <2>2 DEF Rising
<1>6. CASE ShowsPrice(Head(s))
  <2>1. /\ PriceOf(before) <= PriceOf(now)
        /\ PriceOf(now) <= PriceOf(top)
    BY <1>1, <1>4, <1>6 DEF Rising
  <2>2. \A i \in DOMAIN t :
          ShowsPrice(t[i]) => /\ PriceOf(now) <= PriceOf(t[i].bid)
                              /\ PriceOf(t[i].bid) <= PriceOf(top)
    BY <1>1, <1>3, <1>4, <1>6 DEF Rising
  <2>. QED
    BY <1>5, <2>1, <2>2 DEF Rising, t
<1>7. CASE ~ShowsPrice(Head(s))
  <2>1. \A i \in DOMAIN t :
          ShowsPrice(t[i]) => /\ PriceOf(now) <= PriceOf(t[i].bid)
                              /\ PriceOf(t[i].bid) <= PriceOf(top)
    BY <1>1, <1>3, <1>7 DEF Rising
  <2>. QED
    BY <1>2, <1>5, <1>7, <2>1 DEF Rising, t
<1>. QED
  BY <1>6, <1>7

\* Every channel's prices rise, from the one its connection was shown last up to
\* the highest bid's.
OrderInv == \A c \in Client : Rising(send[c], shown[c], highestBid)

\* A step that gives each channel one message at most, without a price or with
\* that of the highest bid, which it does not lower, keeps the order.
LEMMA SendingKeepsOrder ==
  ASSUME TypeInv, TypeInv', OrderInv, NEW m, m \in Message,
         ShowsPrice(m) => m.bid = highestBid',
         \A c \in Client : send'[c] \in {send[c], Append(send[c], m)},
         UNCHANGED shown, PriceOf(highestBid) <= PriceOf(highestBid)'
  PROVE  OrderInv'
<1>1. SUFFICES ASSUME NEW c \in Client PROVE Rising(send'[c], shown'[c], highestBid')
  BY DEF OrderInv
<1>2. send[c] \in Seq(Message) /\ shown[c] \in HighestBid
      /\ highestBid \in HighestBid /\ highestBid' \in HighestBid
  BY DEF TypeInv, MembersTyped, RestTyped
<1>3. PriceOf(highestBid) <= PriceOf(highestBid')
  BY DEF PriceOf, CurrentPrice
<1>4. Rising(send[c], shown[c], highestBid)
  BY DEF OrderInv
<1>5. /\ Rising(send[c], shown[c], highestBid')
      /\ Rising(Append(send[c], m), shown[c], highestBid')
  BY <1>2, <1>3, <1>4, AppendingKeepsRising
<1>. QED
  BY <1>5

LEMMA HubStepKeepsOrder == TypeInv /\ TypeInv' /\ OrderInv /\ HubStep => OrderInv'
<1>. SUFFICES ASSUME TypeInv, TypeInv', OrderInv, HubStep PROVE OrderInv'
  OBVIOUS
<1>a. /\ MembersTyped
      /\ highestBid \in HighestBid /\ highestBid' \in HighestBid
      /\ PriceOf(highestBid) \in Nat
      /\ ~ShowsPrice(Notice) /\ ~ShowsPrice(ErrorMsg)
      /\ Notice \in Message /\ ErrorMsg \in Message
      /\ \A b \in HighestBid : PriceMsg(b) \in Message /\ PriceMsg(b).bid = b
  BY MessagesTyped, PriceOfIsNumber
     DEF TypeInv, MembersTyped, RestTyped, ShowsPrice, Notice, ErrorMsg, PriceMsg
<1>1. CASE handleClientRegistration \/ handleClientUnregistration \/ closeAllClients
  BY <1>1 DEF handleClientRegistration, handleClientUnregistration, closeAllClients, bidVars,
     connVars, OrderInv
<1>2. ASSUME NEW d \in Client, broadcastToOthers(d) PROVE OrderInv'
  <2>1. sendOrRemove(d, Notice, "broadcast") /\ UNCHANGED <<shown, highestBid>>
    BY <1>2 DEF broadcastToOthers, bidVars, connVars
  <2>2. \A c \in Client : send'[c] \in {send[c], Append(send[c], Notice)}
    BY <1>a, <2>1, SendEffect
  <2>. QED
    BY <1>a, <2>1, <2>2, SendingKeepsOrder
<1>3. CASE sendAuctionDataToClient \/ sendCurrentBidToClient
  <2>1. /\ sendOrRemove(hcur, PriceMsg(highestBid), "join")
        /\ hcur \in Client
        /\ UNCHANGED <<shown, highestBid>>
    BY <1>3 DEF sendAuctionDataToClient, sendCurrentBidToClient, bidVars, connVars, TypeInv,
       JoiningTyped
  <2>2. \A c \in Client : send'[c] \in {send[c], Append(send[c], PriceMsg(highestBid))}
    BY <1>a, <2>1, SendEffect
  <2>. QED
    BY <1>a, <2>1, <2>2, SendingKeepsOrder
<1>4. CASE rejectBid
  <2>1. sendToBidderUnsafe(ErrorMsg, Head(bidCh).sender) /\ UNCHANGED <<shown, highestBid>>
    BY <1>4 DEF rejectBid, connVars
  <2>2. \A c \in Client : send'[c] \in {send[c], Append(send[c], ErrorMsg)}
    BY <1>a, <2>1, BidderEffect
  <2>. QED
    BY <1>a, <2>1, <2>2, SendingKeepsOrder
<1>5. CASE acceptBid
  <2>1. /\ broadcastUnsafe(PriceMsg(highestBid'))
        /\ highestBid' = Head(bidCh) /\ Head(bidCh) \in Bid
        /\ validateBid(Head(bidCh), StartingPrice, highestBid, Increment, IsOpen)
        /\ UNCHANGED shown
    BY <1>5 DEF acceptBid, connVars, TypeInv, RestTyped
  <2>2. highestBid'.price >= PriceOf(highestBid) + Increment
    BY <1>a, <2>1, ValidBidRises DEF PriceOf
  <2>3. PriceOf(highestBid)' = highestBid'.price /\ highestBid'.price \in Nat
    BY <2>1, PricesAreNumbers, BidRulesAssumption, NoBidAssumption
       DEF PriceOf, CurrentPrice, Bid, Price
  <2>4. PriceOf(highestBid) <= PriceOf(highestBid)'
    BY <1>a, <2>2, <2>3, BidRulesAssumption
  <2>5. \A c \in Client : send'[c] \in {send[c], Append(send[c], PriceMsg(highestBid'))}
    BY <1>a, <2>1, BroadcastEffect
  <2>. QED
    BY <1>a, <2>1, <2>4, <2>5, SendingKeepsOrder
<1>. QED
  BY <1>1, <1>2, <1>3, <1>4, <1>5 DEF HubStep, HubWork

\* A connection that writes shows a price no lower than the last.
LEMMA WritingKeepsOrder ==
  ASSUME TypeInv, OrderInv, NEW c \in Client, WriteMessage(c)
  PROVE  /\ OrderInv'
         /\ \A d \in Client : PriceOf(shown[d]) <= PriceOf(shown'[d])
<1>1. /\ highestBid' = highestBid
      /\ send[c] # <<>> /\ send[c] \in Seq(Message)
      /\ send'[c] = Tail(send[c])
      /\ shown'[c] = IF ShowsPrice(Head(send[c])) THEN Head(send[c]).bid ELSE shown[c]
      /\ \A d \in Client \ {c} : send'[d] = send[d] /\ shown'[d] = shown[d]
      /\ \A d \in Client : shown[d] \in HighestBid
      /\ highestBid \in HighestBid
  BY DEF WriteMessage, bidVars, TypeInv, MembersTyped, RestTyped
<1>2. PriceOf(shown[c]) <= PriceOf(shown'[c]) /\ Rising(send'[c], shown'[c], highestBid)
  BY <1>1, TakingKeepsRising DEF OrderInv
<1>3. OrderInv'
  BY <1>1, <1>2 DEF OrderInv
<1>4. \A d \in Client \ {c} : PriceOf(shown[d]) <= PriceOf(shown'[d])
  BY <1>1, PriceOfIsNumber
<1>. QED
  BY <1>2, <1>3, <1>4

LEMMA QuietStepKeepsOrder ==
  ASSUME TypeInv, TypeInv', OrderInv, [QuietNext]_vars
  PROVE  /\ OrderInv'
         /\ \A c \in Client : PriceOf(shown[c]) <= PriceOf(shown'[c])
<1>1. \A c \in Client : PriceOf(shown[c]) \in Nat
  BY PriceOfIsNumber DEF TypeInv, RestTyped
<1>2. CASE UNCHANGED vars \/ ServerStep
  BY <1>1, <1>2 DEF vars, ServerStep, CancelFlag, CancelContext, EndTimePasses, bidVars,
     connVars, OrderInv
<1>3. CASE HubStep
  <2>1. shown' = shown
    BY <1>3 DEF HubStep, HubWork, handleClientRegistration, handleClientUnregistration,
       broadcastToOthers, sendAuctionDataToClient, sendCurrentBidToClient, rejectBid,
       acceptBid, closeAllClients, connVars
  <2>. QED
    BY <1>1, <1>3, <2>1, HubStepKeepsOrder
<1>4. CASE QuietConnectionStep
  <2>1. PICK c \in Client :
          \/ Register(c)
          \/ Unregister(c)
          \/ \E b \in BidsOf(c) : SubmitBid(c, b)
          \/ \E m \in Message : ~ShowsPrice(m) /\ SendReply(c, m)
          \/ WriteMessage(c)
    BY <1>4 DEF QuietConnectionStep
  <2>2. CASE Register(c) \/ Unregister(c) \/ \E b \in BidsOf(c) : SubmitBid(c, b)
    BY <1>1, <2>2 DEF Register, Unregister, SubmitBid, bidVars, connVars, OrderInv
  <2>3. ASSUME NEW m \in Message, ~ShowsPrice(m), SendReply(c, m)
        PROVE  /\ OrderInv'
               /\ \A d \in Client : PriceOf(shown[d]) <= PriceOf(shown'[d])
    <3>1. /\ UNCHANGED <<shown, highestBid>>
          /\ send' = Give({c}, m) \/ UNCHANGED send
      BY <2>3 DEF SendReply, bidVars, connVars
    <3>2. \A d \in Client : send'[d] \in {send[d], Append(send[d], m)}
      BY <3>1 DEF Give
    <3>3. PriceOf(highestBid) \in Nat
      BY PriceOfIsNumber DEF TypeInv, RestTyped
    <3>4. OrderInv'
      BY <2>3, <3>1, <3>2, <3>3, SendingKeepsOrder
    <3>. QED
      BY <1>1, <3>1, <3>4
  <2>4. CASE WriteMessage(c)
    BY <2>4, WritingKeepsOrder
  <2>. QED
    BY <2>1, <2>2, <2>3, <2>4
<1>. QED
  BY <1>2, <1>3, <1>4 DEF QuietNext

\* A hub restored at a price starts from it, one without from the starting price.
LEMMA InitOrdered == Init => OrderInv
<1>1. ASSUME Init, NEW c \in Client PROVE Rising(send[c], shown[c], highestBid)
  <2>1. send[c] = <<>> /\ shown[c] = NoBid /\ highestBid \in InitialBid
    BY <1>1 DEF Init
  <2>2. PriceOf(highestBid) = StartingPrice /\ PriceOf(NoBid) = StartingPrice
    BY <2>1 DEF PriceOf, CurrentPrice, InitialBid, RecoveredBid
  <2>. QED
    BY <2>1, <2>2, BidRulesAssumption DEF Rising
<1>. QED
  BY <1>1 DEF OrderInv
=============================================================================
