------------------------------ MODULE HubProofs ------------------------------
(***************************************************************************)
(* What Hub's properties rest on, for any number of clients, any channel   *)
(* capacities and any prices.                                              *)
(***************************************************************************)
EXTENDS Hub, FiniteSetTheorems, TLAPS

LEMMA MessagesTyped ==
  /\ Notice \in Message
  /\ ErrorMsg \in Message
  /\ \A b \in HighestBid : PriceMsg(b) \in Message
BY DEF Notice, ErrorMsg, PriceMsg, Message

LEMMA RulesTyped ==
  /\ InitialBid \subseteq HighestBid
  /\ Bid \subseteq HighestBid
  /\ NoBid \in HighestBid
BY BidRulesAssumption DEF InitialBid, HighestBid, Bid, RecoveredBid, Price

\* The number of members at any moment is a count updateClientCountInDB may be
\* given.
LEMMA CountTyped ==
  ASSUME NEW S \in SUBSET Client
  PROVE  Cardinality(S) \in 0..Cardinality(Client)
<1>1. IsFiniteSet(S) /\ Cardinality(S) <= Cardinality(Client)
  BY HubAssumption, FS_Subset
<1>2. Cardinality(S) \in Nat /\ Cardinality(Client) \in Nat
  BY <1>1, HubAssumption, FS_CardinalityType
<1>. QED
  BY <1>1, <1>2

-----------------------------------------------------------------------------
(* Sending and removing keep the types.                                      *)

\* What a send or a removal may change.
MembersTyped ==
  /\ clients \subseteq Client
  /\ closed \subseteq Client
  /\ panic \in Panics
  /\ send \in [Client -> Seq(Message)]
  /\ \A c \in Client : Len(send[c]) <= SendCap

LEMMA GiveTyped ==
  ASSUME MembersTyped, NEW S \in SUBSET Client, NEW m \in Message,
         \A c \in S : ~Full(c), send' = Give(S, m)
  PROVE  /\ send' \in [Client -> Seq(Message)]
         /\ \A c \in Client : Len(send'[c]) <= SendCap
<1>1. SUFFICES ASSUME NEW c \in Client
               PROVE  /\ Give(S, m)[c] \in Seq(Message)
                      /\ Len(Give(S, m)[c]) <= SendCap
  BY DEF Give
<1>2. send[c] \in Seq(Message) /\ Len(send[c]) \in Nat /\ Len(send[c]) <= SendCap
  BY DEF MembersTyped
<1>3. CASE c \in S
  <2>1. Give(S, m)[c] = Append(send[c], m)
    BY <1>3 DEF Give
  <2>2. Len(send[c]) < SendCap
    BY <1>2, <1>3, HubAssumption DEF Full
  <2>. QED
    BY <1>2, <2>1, <2>2, HubAssumption
<1>4. CASE c \notin S
  BY <1>2, <1>4 DEF Give
<1>. QED
  BY <1>3, <1>4

LEMMA RemoveTyped ==
  ASSUME MembersTyped, NEW S \in SUBSET Client, removeClientUnsafe(S)
  PROVE  clients' \subseteq Client /\ closed' \subseteq Client /\ panic' \in Panics
BY DEF MembersTyped, removeClientUnsafe, Panics

LEMMA SendOrRemoveTyped ==
  ASSUME MembersTyped, NEW c \in Client, NEW m \in Message,
         NEW why \in Panics, sendOrRemove(c, m, why)
  PROVE  MembersTyped'
<1>1. CASE c \in closed
  BY <1>1 DEF sendOrRemove, MembersTyped
<1>2. CASE c \notin closed /\ ~Full(c) /\ send' = Give({c}, m) /\ UNCHANGED memberVars
  <2>1. {c} \in SUBSET Client /\ \A d \in {c} : ~Full(d)
    BY <1>2
  <2>2. /\ send' \in [Client -> Seq(Message)]
        /\ \A d \in Client : Len(send'[d]) <= SendCap
    BY <1>2, <2>1, GiveTyped
  <2>. QED
    BY <1>2, <2>2 DEF memberVars, MembersTyped
<1>3. CASE c \notin closed /\ Full(c) /\ removeClientUnsafe({c}) /\ UNCHANGED send
  <2>1. {c} \in SUBSET Client
    OBVIOUS
  <2>2. clients' \subseteq Client /\ closed' \subseteq Client /\ panic' \in Panics
    BY <1>3, <2>1, RemoveTyped
  <2>. QED
    BY <1>3, <2>2 DEF MembersTyped
<1>. QED
  BY <1>1, <1>2, <1>3 DEF sendOrRemove

LEMMA BroadcastTyped ==
  ASSUME MembersTyped, NEW m \in Message, broadcastUnsafe(m)
  PROVE  MembersTyped'
<1>. DEFINE slow == {c \in clients : Full(c)}
<1>1. CASE clients \cap closed # {}
  BY <1>1 DEF broadcastUnsafe, MembersTyped, Panics
<1>2. CASE send' = Give(clients \ slow, m) /\ removeClientUnsafe(slow)
  <2>1. clients \ slow \in SUBSET Client /\ slow \in SUBSET Client
    BY DEF MembersTyped
  <2>2. \A c \in clients \ slow : ~Full(c)
    OBVIOUS
  <2>3. /\ send' \in [Client -> Seq(Message)]
        /\ \A d \in Client : Len(send'[d]) <= SendCap
    BY <1>2, <2>1, <2>2, GiveTyped
  <2>4. clients' \subseteq Client /\ closed' \subseteq Client /\ panic' \in Panics
    BY <1>2, <2>1, RemoveTyped
  <2>. QED
    BY <2>3, <2>4 DEF MembersTyped
<1>. QED
  BY <1>1, <1>2 DEF broadcastUnsafe

LEMMA SendToBidderTyped ==
  ASSUME MembersTyped, NEW m \in Message, NEW user, sendToBidderUnsafe(m, user)
  PROVE  MembersTyped'
<1>. DEFINE his == {c \in clients : UserOf[c] = user}
<1>1. CASE his = {}
  BY <1>1 DEF sendToBidderUnsafe, MembersTyped, memberVars
<1>2. CASE his # {}
  <2>1. PICK c \in his : sendOrRemove(c, m, "broadcast")
    BY <1>2 DEF sendToBidderUnsafe
  <2>2. c \in Client
    BY DEF MembersTyped
  <2>. QED
    BY <2>1, <2>2, SendOrRemoveTyped DEF Panics
<1>. QED
  BY <1>1, <1>2

-----------------------------------------------------------------------------
(* Type correctness.                                                         *)

\* The conjuncts of TypeOK that a send or a removal leaves alone.
RestTyped ==
  /\ isActive \in BOOLEAN
  /\ ctxDone \in BOOLEAN
  /\ ended \in BOOLEAN
  /\ register \in Seq(Client) /\ Len(register) <= RegisterCap
  /\ unregister \in Seq(Client) /\ Len(unregister) <= UnregisterCap
  /\ bidCh \in Seq(Bid) /\ Len(bidCh) <= BidCap
  /\ highestBid \in HighestBid
  /\ bidHistory \in Seq([bid : Bid, accepted : BOOLEAN])
  /\ hpc \in {"select", "join", "joinBid", "leave", "stopped"}
  /\ hcur \in Client \cup {NoClient}
  /\ htodo \subseteq Client
  /\ counts \in Seq(0..Cardinality(Client))
  /\ inserts \subseteq Bid
  /\ joined \subseteq Client
  /\ shown \in [Client -> HighestBid]

\* While a registration is under way, it is some client's.
JoiningTyped == hpc \in {"join", "joinBid"} => hcur \in Client

TypeInv == MembersTyped /\ RestTyped /\ JoiningTyped

LEMMA TypeParts == TypeInv => TypeOK
BY DEF TypeInv, MembersTyped, RestTyped, TypeOK

LEMMA InitTyped == Init => TypeInv
<1>. SUFFICES ASSUME Init PROVE TypeInv
  OBVIOUS
<1>1. MembersTyped
  BY HubAssumption DEF Init, MembersTyped, Panics
<1>2. RestTyped
  <2>1. /\ register \in Seq(Client) /\ Len(register) <= RegisterCap
        /\ unregister \in Seq(Client) /\ Len(unregister) <= UnregisterCap
        /\ bidCh \in Seq(Bid) /\ Len(bidCh) <= BidCap
    BY HubAssumption DEF Init
  <2>2. highestBid \in HighestBid /\ shown \in [Client -> HighestBid]
    BY RulesTyped DEF Init
  <2>3. /\ bidHistory \in Seq([bid : Bid, accepted : BOOLEAN])
        /\ counts \in Seq(0..Cardinality(Client))
    BY DEF Init
  <2>. QED
    BY <2>1, <2>2, <2>3 DEF Init, RestTyped
<1>. QED
  BY <1>1, <1>2 DEF TypeInv, JoiningTyped, Init

LEMMA HubStepTyped == TypeInv /\ HubStep => TypeInv'
<1>. SUFFICES ASSUME TypeInv, HubStep PROVE TypeInv'
  OBVIOUS
<1>. USE DEF TypeInv
<1>1. CASE handleClientRegistration
  <2>. DEFINE c == Head(register)
  <2>1. c \in Client /\ Tail(register) \in Seq(Client)
        /\ Len(Tail(register)) <= RegisterCap
    BY <1>1, HubAssumption DEF handleClientRegistration, RestTyped
  <2>2. Cardinality(clients \cup {c}) \in 0..Cardinality(Client)
    BY <2>1, CountTyped DEF MembersTyped
  <2>3. MembersTyped'
    BY <1>1, <2>1 DEF handleClientRegistration, MembersTyped
  <2>4. counts' \in Seq(0..Cardinality(Client))
    BY <1>1, <2>2 DEF handleClientRegistration, spawnCountUpdate, RestTyped
  <2>5. RestTyped' /\ JoiningTyped'
    BY <1>1, <2>1, <2>4 DEF handleClientRegistration, RestTyped, MembersTyped, JoiningTyped,
       hubVars, bidVars, connVars
  <2>. QED
    BY <2>3, <2>5
<1>2. CASE handleClientUnregistration
  <2>. DEFINE c == Head(unregister)
  <2>1. c \in Client /\ Tail(unregister) \in Seq(Client)
        /\ Len(Tail(unregister)) <= UnregisterCap
    BY <1>2, HubAssumption DEF handleClientUnregistration, RestTyped
  <2>2. MembersTyped'
    <3>1. {c} \in SUBSET Client /\ removeClientUnsafe({c}) /\ send' = send
      BY <1>2, <2>1 DEF handleClientUnregistration
    <3>. QED
      BY <3>1, RemoveTyped DEF MembersTyped
  <2>3. Cardinality(clients \ {c}) \in 0..Cardinality(Client)
    BY CountTyped DEF MembersTyped
  <2>4. counts' \in Seq(0..Cardinality(Client))
    <3>1. counts \in Seq(0..Cardinality(Client))
      BY DEF RestTyped
    <3>2. \/ counts' = counts
          \/ counts' = Append(counts, Cardinality(clients \ {c}))
      BY <1>2 DEF handleClientUnregistration, spawnCountUpdate
    <3>3. CASE counts' = Append(counts, Cardinality(clients \ {c}))
      BY <2>3, <3>1, <3>3
    <3>. QED
      BY <3>1, <3>2, <3>3
  <2>5. /\ htodo' \subseteq Client
        /\ hpc' \in {"select", "leave"}
        /\ hcur' = hcur
    BY <1>2 DEF handleClientUnregistration, RestTyped, MembersTyped, Selecting
  <2>6. RestTyped' /\ JoiningTyped'
    BY <1>2, <2>1, <2>4, <2>5 DEF handleClientUnregistration, RestTyped, JoiningTyped,
       hubVars, bidVars, connVars
  <2>. QED
    BY <2>2, <2>6
<1>3. ASSUME NEW d \in Client, broadcastToOthers(d) PROVE TypeInv'
  <2>1. sendOrRemove(d, Notice, "broadcast")
    BY <1>3 DEF broadcastToOthers
  <2>2. MembersTyped'
    BY <2>1, MessagesTyped, SendOrRemoveTyped DEF Panics
  <2>3. RestTyped' /\ JoiningTyped'
    BY <1>3 DEF broadcastToOthers, RestTyped, JoiningTyped, hubVars, chanVars, bidVars,
       spawnVars, connVars
  <2>. QED
    BY <2>2, <2>3
<1>4. CASE sendAuctionDataToClient
  <2>1. hcur \in Client /\ PriceMsg(highestBid) \in Message
    BY <1>4, MessagesTyped DEF sendAuctionDataToClient, JoiningTyped, RestTyped
  <2>2. MembersTyped'
    BY <1>4, <2>1, SendOrRemoveTyped DEF sendAuctionDataToClient, Panics
  <2>3. RestTyped' /\ JoiningTyped'
    BY <1>4, <2>1 DEF sendAuctionDataToClient, RestTyped, JoiningTyped, hubVars, chanVars,
       bidVars, spawnVars, connVars
  <2>. QED
    BY <2>2, <2>3
<1>5. CASE sendCurrentBidToClient
  <2>1. hcur \in Client /\ PriceMsg(highestBid) \in Message
    BY <1>5, MessagesTyped DEF sendCurrentBidToClient, JoiningTyped, RestTyped
  <2>2. MembersTyped'
    BY <1>5, <2>1, SendOrRemoveTyped DEF sendCurrentBidToClient, Panics
  <2>3. RestTyped' /\ JoiningTyped'
    BY <1>5 DEF sendCurrentBidToClient, RestTyped, JoiningTyped, hubVars, chanVars,
       bidVars, spawnVars, connVars
  <2>. QED
    BY <2>2, <2>3
<1>6. CASE rejectBid
  <2>1. Head(bidCh) \in Bid /\ Tail(bidCh) \in Seq(Bid) /\ Len(Tail(bidCh)) <= BidCap
    BY <1>6, HubAssumption DEF rejectBid, RestTyped
  <2>2. MembersTyped'
    BY <1>6, MessagesTyped, SendToBidderTyped DEF rejectBid
  <2>3. bidHistory' \in Seq([bid : Bid, accepted : BOOLEAN])
    BY <1>6, <2>1 DEF rejectBid, addBidToHistory, RestTyped
  <2>4. RestTyped' /\ JoiningTyped'
    BY <1>6, <2>1, <2>3 DEF rejectBid, RestTyped, JoiningTyped, hubVars, pcVars,
       spawnVars, connVars
  <2>. QED
    BY <2>2, <2>4
<1>7. CASE acceptBid
  <2>1. Head(bidCh) \in Bid /\ Tail(bidCh) \in Seq(Bid) /\ Len(Tail(bidCh)) <= BidCap
    BY <1>7, HubAssumption DEF acceptBid, RestTyped
  <2>2. Head(bidCh) \in HighestBid
    BY <2>1, RulesTyped
  <2>3. MembersTyped'
    BY <1>7, <2>2, MessagesTyped, BroadcastTyped DEF acceptBid
  <2>4. bidHistory' \in Seq([bid : Bid, accepted : BOOLEAN])
    BY <1>7, <2>1 DEF acceptBid, addBidToHistory, RestTyped
  <2>5. RestTyped' /\ JoiningTyped'
    BY <1>7, <2>1, <2>2, <2>4 DEF acceptBid, RestTyped, JoiningTyped, hubVars, pcVars,
       connVars
  <2>. QED
    BY <2>3, <2>5
<1>8. CASE closeAllClients
  BY <1>8 DEF closeAllClients, MembersTyped, RestTyped, JoiningTyped, Panics, hubVars,
     chanVars, bidVars, spawnVars, connVars
<1>. QED
  BY <1>1, <1>2, <1>3, <1>4, <1>5, <1>6, <1>7, <1>8 DEF HubStep, HubWork

LEMMA ServerTyped == TypeInv /\ ServerStep => TypeInv'
BY DEF TypeInv, MembersTyped, RestTyped, JoiningTyped, ServerStep, CancelFlag,
   CancelContext, EndTimePasses, chanVars, memberVars, bidVars, pcVars, spawnVars, connVars

LEMMA ConnectionTyped == TypeInv /\ ConnectionStep => TypeInv'
<1>. SUFFICES ASSUME TypeInv, NEW c \in Client,
                     \/ Register(c)
                     \/ Unregister(c)
                     \/ \E b \in BidsOf(c) : SubmitBid(c, b)
                     \/ \E m \in Reply : SendReply(c, m)
                     \/ WriteMessage(c)
              PROVE  TypeInv'
  BY DEF ConnectionStep
<1>. USE DEF TypeInv
<1>1. CASE Register(c)
  <2>1. register' \in Seq(Client) /\ Len(register') <= RegisterCap
    BY <1>1, HubAssumption DEF Register, RestTyped
  <2>. QED
    BY <1>1, <2>1 DEF Register, MembersTyped, RestTyped, JoiningTyped, hubVars,
       memberVars, bidVars, pcVars, spawnVars
<1>2. CASE Unregister(c)
  <2>1. unregister' \in Seq(Client) /\ Len(unregister') <= UnregisterCap
    BY <1>2, HubAssumption DEF Unregister, RestTyped
  <2>. QED
    BY <1>2, <2>1 DEF Unregister, MembersTyped, RestTyped, JoiningTyped, hubVars,
       memberVars, bidVars, pcVars, spawnVars, connVars
<1>3. ASSUME NEW b \in BidsOf(c), SubmitBid(c, b) PROVE TypeInv'
  <2>1. b \in Bid
    BY HubAssumption DEF BidsOf, Bid
  <2>2. bidCh' \in Seq(Bid) /\ Len(bidCh') <= BidCap
    BY <1>3, <2>1, HubAssumption DEF SubmitBid, RestTyped
  <2>. QED
    BY <1>3, <2>2 DEF SubmitBid, MembersTyped, RestTyped, JoiningTyped, hubVars,
       memberVars, bidVars, pcVars, spawnVars, connVars
<1>4. ASSUME NEW m \in Reply, SendReply(c, m) PROVE TypeInv'
  <2>1. MembersTyped'
    <3>1. CASE c \notin closed /\ ~Full(c) /\ send' = Give({c}, m) /\ UNCHANGED panic
      <4>1. {c} \in SUBSET Client /\ m \in Message /\ \A d \in {c} : ~Full(d)
        BY <3>1, HubAssumption
      <4>2. /\ send' \in [Client -> Seq(Message)]
            /\ \A d \in Client : Len(send'[d]) <= SendCap
        BY <3>1, <4>1, GiveTyped
      <4>. QED
        BY <1>4, <3>1, <4>2 DEF SendReply, MembersTyped
    <3>2. CASE panic' = "reply" /\ UNCHANGED send
      BY <1>4, <3>2 DEF SendReply, MembersTyped, Panics
    <3>. QED
      BY <1>4, <3>1, <3>2 DEF SendReply
  <2>. QED
    BY <1>4, <2>1 DEF SendReply, RestTyped, JoiningTyped, hubVars, chanVars, bidVars,
       pcVars, spawnVars, connVars
<1>5. CASE WriteMessage(c)
  <2>1. send[c] \in Seq(Message) /\ send[c] # <<>> /\ Len(send[c]) <= SendCap
    BY <1>5 DEF WriteMessage, MembersTyped
  <2>2. Head(send[c]) \in Message /\ Tail(send[c]) \in Seq(Message)
        /\ Len(Tail(send[c])) <= SendCap
    BY <2>1, HubAssumption
  <2>3. Head(send[c]).bid \in HighestBid
    BY <2>2, RulesTyped DEF Message
  <2>4. MembersTyped'
    BY <1>5, <2>2 DEF WriteMessage, MembersTyped, memberVars
  <2>5. shown' \in [Client -> HighestBid]
    BY <1>5, <2>3 DEF WriteMessage, RestTyped
  <2>. QED
    BY <1>5, <2>4, <2>5 DEF WriteMessage, RestTyped, JoiningTyped, hubVars, chanVars,
       bidVars, pcVars, spawnVars
<1>. QED
  BY <1>1, <1>2, <1>3, <1>4, <1>5

LEMMA StepTyped == TypeInv /\ [Next]_vars => TypeInv'
<1>1. TypeInv /\ UNCHANGED vars => TypeInv'
  BY DEF TypeInv, MembersTyped, RestTyped, JoiningTyped, vars, hubVars, chanVars,
     memberVars, bidVars, pcVars, spawnVars, connVars
<1>. QED
  BY <1>1, HubStepTyped, ServerTyped, ConnectionTyped DEF Next

LEMMA TypeInvHolds == Spec => []TypeInv
BY StepTyped, InitTyped, PTL DEF Spec

\* Types and channel capacities hold in every behaviour of the hub.
THEOREM TypeCorrect == Spec => []TypeOK
BY TypeInvHolds, TypeParts, PTL

-----------------------------------------------------------------------------
(* The hub and the Send channels: ChannelInv is inductive.                   *)

\* A removal moves clients from the members to the closed, and nothing else.
LEMMA RemoveEffect ==
  ASSUME clients \cap closed = {}, NEW S, removeClientUnsafe(S)
  PROVE  /\ clients' = clients \ S
         /\ clients' \cap closed' = {}
         /\ clients' \cup closed' = clients \cup closed
         /\ panic' = panic
BY DEF removeClientUnsafe

\* So does a send with a timeout; it panics on a closed channel only.
LEMMA SendOrRemoveEffect ==
  ASSUME clients \cap closed = {}, NEW c, NEW m, NEW why, sendOrRemove(c, m, why)
  PROVE  /\ clients \ {c} \subseteq clients'
         /\ clients' \subseteq clients
         /\ clients' \cap closed' = {}
         /\ clients' \cup closed' = clients \cup closed
         /\ panic' \in {panic, why}
         /\ c \in clients => panic' = panic
<1>1. CASE c \in closed
  BY <1>1 DEF sendOrRemove
<1>2. CASE c \notin closed /\ UNCHANGED memberVars
  BY <1>2 DEF memberVars
<1>3. CASE c \notin closed /\ removeClientUnsafe({c})
  BY <1>3, RemoveEffect
<1>. QED
  BY <1>1, <1>2, <1>3 DEF sendOrRemove

LEMMA InitChannel == Init => ChannelInv
BY DEF Init, ChannelInv, ChannelDiscipline

LEMMA HubStepChannel == TypeInv /\ ChannelInv /\ HubStep => ChannelInv'
<1>. SUFFICES ASSUME TypeInv, ChannelInv, HubStep PROVE ChannelInv'
  OBVIOUS
<1>a. /\ clients \cap closed = {}
      /\ clients \cup closed \subseteq joined
      /\ htodo \subseteq clients
      /\ panic \notin {"close", "broadcast"}
  BY DEF ChannelInv, ChannelDiscipline
<1>1. CASE handleClientRegistration
  <2>. DEFINE c == Head(register)
  <2>1. /\ register \in Seq(Client) /\ register # <<>>
        /\ register' = Tail(register)
        /\ clients' = clients \cup {c}
        /\ htodo' \subseteq clients
        /\ hcur' = c /\ hpc' = "join"
        /\ UNCHANGED <<closed, joined, panic>>
    BY <1>1 DEF handleClientRegistration, connVars, TypeInv, RestTyped
  <2>2. /\ 1 \in DOMAIN register
        /\ c = register[1]
        /\ \A i \in DOMAIN register' : i + 1 \in DOMAIN register /\ i + 1 # 1
                                       /\ register'[i] = register[i + 1]
    BY <2>1
  <2>3. c \in Client /\ c \in joined \ (clients \cup closed)
    BY <2>1, <2>2 DEF ChannelInv
  <2>4. \A i \in DOMAIN register' : register'[i] \in joined \ (clients \cup closed)
                                    /\ register'[i] # c
    BY <2>2 DEF ChannelInv
  <2>5. \A i, j \in DOMAIN register' : register'[i] = register'[j] => i = j
    <3>. SUFFICES ASSUME NEW i \in DOMAIN register', NEW j \in DOMAIN register',
                         register'[i] = register'[j]
                  PROVE  i = j
      OBVIOUS
    <3>1. i + 1 = j + 1
      BY <2>2 DEF ChannelInv
    <3>2. i \in Nat /\ j \in Nat
      BY <2>1
    <3>. QED
      BY <3>1, <3>2
  <2>. QED
    BY <1>a, <2>1, <2>3, <2>4, <2>5 DEF ChannelInv, ChannelDiscipline
<1>2. CASE handleClientUnregistration
  <2>. DEFINE c == Head(unregister)
  <2>1. /\ removeClientUnsafe({c})
        /\ UNCHANGED <<register, joined, hcur>>
        /\ hpc = "select"
        /\ hpc' = "leave" \/ (hpc' = "select" /\ htodo' = {})
        /\ htodo' \subseteq clients \ {c}
    BY <1>2 DEF handleClientUnregistration, Selecting, connVars, ChannelInv
  <2>2. /\ clients' = clients \ {c}
        /\ clients' \cap closed' = {}
        /\ clients' \cup closed' = clients \cup closed
        /\ panic' = panic
    BY <1>a, <2>1, RemoveEffect
  <2>. QED
    BY <1>a, <2>1, <2>2 DEF ChannelInv, ChannelDiscipline
<1>3. ASSUME NEW d \in Client, broadcastToOthers(d) PROVE ChannelInv'
  <2>1. /\ sendOrRemove(d, Notice, "broadcast")
        /\ d \in clients
        /\ htodo' = htodo \ {d}
        /\ UNCHANGED <<register, joined, hcur>>
        /\ \/ hpc' = hpc /\ hpc \in {"join", "leave"}
           \/ hpc' = "select" /\ htodo' = {}
    BY <1>a, <1>3 DEF broadcastToOthers, chanVars, connVars
  <2>2. /\ clients \ {d} \subseteq clients'
        /\ clients' \cap closed' = {}
        /\ clients' \cup closed' = clients \cup closed
        /\ panic' = panic
    BY <1>a, <2>1, SendOrRemoveEffect
  <2>. QED
    BY <1>a, <2>1, <2>2 DEF ChannelInv, ChannelDiscipline
<1>4. CASE sendAuctionDataToClient \/ sendCurrentBidToClient
  <2>1. PICK m : sendOrRemove(hcur, m, "join")
    BY <1>4 DEF sendAuctionDataToClient, sendCurrentBidToClient
  <2>2. /\ htodo = {} /\ htodo' = {}
        /\ UNCHANGED <<register, joined>>
        /\ hpc' \in {"select", "joinBid"}
        /\ hpc' = "joinBid" => hcur' = hcur /\ hpc = "join"
    BY <1>4 DEF sendAuctionDataToClient, sendCurrentBidToClient, chanVars, connVars,
       ChannelInv
  <2>3. /\ clients' \cap closed' = {}
        /\ clients' \cup closed' = clients \cup closed
        /\ panic' \in {panic, "join"}
    BY <1>a, <2>1, SendOrRemoveEffect
  <2>. QED
    BY <1>a, <2>2, <2>3 DEF ChannelInv, ChannelDiscipline
<1>5. CASE rejectBid
  <2>. DEFINE user == Head(bidCh).sender
              his == {c \in clients : UserOf[c] = user}
  <2>1. /\ sendToBidderUnsafe(ErrorMsg, user)
        /\ htodo = {}
        /\ UNCHANGED <<register, joined, hpc, hcur, htodo>>
    BY <1>5 DEF rejectBid, Selecting, pcVars, connVars, ChannelInv
  <2>2. /\ clients' \cap closed' = {}
        /\ clients' \cup closed' = clients \cup closed
        /\ panic' = panic
    <3>1. CASE his = {}
      BY <1>a, <2>1, <3>1 DEF sendToBidderUnsafe, memberVars
    <3>2. CASE his # {}
      <4>1. PICK c \in his : sendOrRemove(c, ErrorMsg, "broadcast")
        BY <2>1, <3>2 DEF sendToBidderUnsafe
      <4>. QED
        BY <1>a, <4>1, SendOrRemoveEffect
    <3>. QED
      BY <3>1, <3>2
  <2>. QED
    BY <1>a, <2>1, <2>2 DEF ChannelInv, ChannelDiscipline
<1>6. CASE acceptBid
  <2>1. /\ broadcastUnsafe(PriceMsg(Head(bidCh)))
        /\ htodo = {}
        /\ UNCHANGED <<register, joined, hpc, hcur, htodo>>
    BY <1>6 DEF acceptBid, Selecting, pcVars, connVars, ChannelInv
  <2>2. PICK S : removeClientUnsafe(S)
    BY <1>a, <2>1 DEF broadcastUnsafe
  <2>3. /\ clients' \cap closed' = {}
        /\ clients' \cup closed' = clients \cup closed
        /\ panic' = panic
    BY <1>a, <2>2, RemoveEffect
  <2>. QED
    BY <1>a, <2>1, <2>3 DEF ChannelInv, ChannelDiscipline
<1>7. CASE closeAllClients
  BY <1>a, <1>7 DEF closeAllClients, chanVars, Selecting, ChannelInv, ChannelDiscipline
<1>. QED
  BY <1>1, <1>2, <1>3, <1>4, <1>5, <1>6, <1>7 DEF HubStep, HubWork

LEMMA ConnectionChannel == TypeInv /\ ChannelInv /\ ConnectionStep => ChannelInv'
<1>. SUFFICES ASSUME TypeInv, ChannelInv, NEW c \in Client,
                     \/ Register(c)
                     \/ Unregister(c)
                     \/ \E b \in BidsOf(c) : SubmitBid(c, b)
                     \/ \E m \in Reply : SendReply(c, m)
                     \/ WriteMessage(c)
              PROVE  ChannelInv'
  BY DEF ConnectionStep
<1>1. CASE Register(c)
  <2>1. /\ register \in Seq(Client)
        /\ register' = Append(register, c)
        /\ c \notin joined
        /\ joined' = joined \cup {c}
        /\ UNCHANGED <<clients, closed, panic, htodo, hpc, hcur>>
    BY <1>1 DEF Register, memberVars, pcVars, TypeInv, RestTyped
  <2>2. \A i \in DOMAIN register' :
           \/ i \in DOMAIN register /\ register'[i] = register[i]
           \/ i = Len(register) + 1 /\ register'[i] = c
    BY <2>1
  <2>3. \A i \in DOMAIN register : register[i] \in joined \ (clients \cup closed)
    BY DEF ChannelInv
  <2>4. \A i \in DOMAIN register' : register'[i] \in joined' \ (clients' \cup closed')
    BY <2>1, <2>2, <2>3 DEF ChannelInv
  <2>5. \A i, j \in DOMAIN register' : register'[i] = register'[j] => i = j
    BY <2>1, <2>2, <2>3 DEF ChannelInv
  <2>. QED
    BY <2>1, <2>4, <2>5 DEF ChannelInv, ChannelDiscipline
<1>2. CASE Unregister(c) \/ (\E b \in BidsOf(c) : SubmitBid(c, b)) \/ WriteMessage(c)
  BY <1>2 DEF Unregister, SubmitBid, WriteMessage, memberVars, pcVars, connVars, chanVars,
     ChannelInv, ChannelDiscipline
<1>3. ASSUME NEW m \in Reply, SendReply(c, m) PROVE ChannelInv'
  <2>1. panic' \in {panic, "reply"}
    BY <1>3 DEF SendReply
  <2>. QED
    BY <1>3, <2>1 DEF SendReply, chanVars, pcVars, connVars, ChannelInv, ChannelDiscipline
<1>. QED
  BY <1>1, <1>2, <1>3

LEMMA ChannelInvHolds == Spec => []ChannelInv
<1>1. TypeInv /\ ChannelInv /\ [Next]_vars => ChannelInv'
  <2>1. ChannelInv /\ UNCHANGED vars => ChannelInv'
    BY DEF vars, chanVars, memberVars, pcVars, connVars, ChannelInv, ChannelDiscipline
  <2>2. ChannelInv /\ ServerStep => ChannelInv'
    BY DEF ServerStep, CancelFlag, CancelContext, EndTimePasses, chanVars, memberVars,
       pcVars, connVars, ChannelInv, ChannelDiscipline
  <2>. QED
    BY <2>1, <2>2, HubStepChannel, ConnectionChannel DEF Next
<1>. QED
  BY <1>1, InitChannel, TypeInvHolds, PTL DEF Spec

\* The hub never closes a Send channel twice and never broadcasts on a closed
\* one, whatever its connections do and whenever it is cancelled.
THEOREM ChannelsKept == Spec => []ChannelDiscipline
<1>1. ChannelInv => ChannelDiscipline
  BY DEF ChannelInv
<1>. QED
  BY <1>1, ChannelInvHolds, PTL
=============================================================================
