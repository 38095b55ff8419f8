# BidZy in TLA+

BidZy is a live auction server in Go: bidders join an auction over a websocket, a *hub* per
auction judges their bids and tells everybody, PostgreSQL keeps auctions and bids, a cron job
opens and closes auctions and mails the winner, and a rate limiter stands in front of it all. This
directory holds TLA+ modules of everything that decides who wins and who hears of it, TLC runs over
small instances, and proofs of the main properties for instances of any size. Paths below are those of the repository, without the leading `src/`.

## Inventory of the system

| component | state | operations | correct when |
|---|---|---|---|
| **Hub** (`internal/service/auction/auction-ws/hub.go`) | `Clients`, `HighestBid`, `BidHistory`, `IsActive`, `EndTime`, the channels `Register`, `Unregister`, `Bid`, a context | `Run` and its handlers, in one goroutine; `Cancel` and the getters, from others | the highest bid only rises, by the increment, between different senders; nothing is accepted after the end; every member knows the highest bid; each `Send` channel is closed once and never used again; a slow client holds nobody up |
| **Client pumps** (`auction-ws/client.go`) | the connection, the buffered `Send` channel | `ReadPump`, `WritePump`, two goroutines per connection | prices arrive in order; a connection that breaks leaves the hub; both goroutines end |
| **JoinAuction** (`internal/handler/ws-handler.go`) | none | find or restore the hub, upgrade, register with a timeout, start the pumps | a connection is either registered or closed |
| **HubManager** (`auction-ws/hub_manager.go`) | the map of hubs, `stopped` | `GetHub`, `GetOrCreateHub`, `CreateHub`, `DeleteHub`, `HandleAuctionEnd`, `performCleanup`, `Stop` | one running hub per auction; a restored hub continues where the lost one was; ended hubs go away |
| **HTTP handlers** (`internal/handler/http-handler.go`) | none | create, delete and list auctions, upload | an auction that was created can be joined |
| **Auction store** (`internal/store/auction/auction.go`, the `updated_at` trigger in `internal/migrations`) | tables `auctions`, the e-mail log | insert, status changes, recently ended ids, client count; `GetAuctionByID` computes the current price from `bids` | status follows the clock; the price a hub is restored with is that of the last accepted bid |
| **Bid store** (`internal/store/bid/bid.go`) | table `bids` | insert, highest bid, list | the highest bid in the table is the hub's, to the cent |
| **AuctionScheduler** (`internal/scheduler/scheduler.go`) | a cron object | a job every 30 s: activate, end, mail, log the mail; `Stop` | every ended auction is mailed, once |
| **Mail service** (`internal/service/mail/mail.go`) | none | `SendAuctionEndedEmail` | one mail for each participant, and the winner among them |
| **Rate limiter** (`internal/middleware/rate-limiter.go`) | a token bucket per key, a cleanup goroutine, a Redis counter | `Middleware`, `TryConsume`, `cleanupOldBuckets`, `CheckGlobalLimit` | no key gets more than its capacity plus its rate |
| **Auth, categories, users** (`internal/service/{auth,category,user}`, their stores) | tables | one query per request | sequential, no interaction with the auctions |
| **Schema, validation, wiring, S3** | — | — | data and start-up |

How they interact. `JoinAuction` takes a hub from the manager's map, or builds one from the
`auctions` row, and puts a new `Client` in the hub's `Register` channel; from then on
`ReadPump` turns what the peer sends into sends on `Unregister` and `Bid`, or into answers on the
client's own `Send`, and `WritePump` empties `Send` into the connection. `Hub.Run` takes from the
three channels in whatever order `select` picks and writes to the `Send` of other clients. Accepted
bids and client counts go to the database in goroutines of their own, which nobody waits for.
`Cancel` is called by the manager (delete, cleanup, end of the auction, stop). The scheduler and the
mailer see the database only.

What is hard in it: `Send` has writers on two sides (the hub and its own `ReadPump`) and is closed by
one of them; the three channels of a hub are unordered among each other; every send has its own
timeout, but one has none; the hub may be cancelled, or the auction end, between any two steps;
clients may be slow or gone; the database hears of bids late, in any order, or never; a restarted
server rebuilds hubs from it; runs of the cron job overlap. `PROJECT.json` lists these hazards at their
lines, each with the property that would catch it or the reason why none does.

## Modules

| module | models | state and actions |
|---|---|---|
| `BidRules` | `Bid`, `HighestBid`, `validateBid`, the bid a restored hub starts from | operators only |
| `Auction` | what a hub promises, without goroutines and channels | `best`, `ledger`, `open`; `Raise`, `Close` |
| `Hub` | `hub.go`, with connections that may use its channels at any time | see below |
| `AuctionRoom` | `client.go` and the registration in `ws-handler.go` on top of `Hub` | `conns`, `rp`, `wp`, `rmsg`; one action per stretch of a pump |
| `Tables` | what the columns keep of an amount; the queries of the three stores over one auction's rows: price, highest bidder, participants, winner | operators only |
| `HubManager` | `hub_manager.go`, `CreateAuction`, `DeleteAuction`, the finding of a hub in `ws-handler.go`, restarts | `hub`, `room`, `stop`; `join`, `timer`, `creating`; `bids`, `inserts`, `status` |
| `AuctionScheduler` | `scheduler.go`, `mail.go`, the status queries and the e-mail log | `run`, `status`, `age`, `logged`, `mails` |
| `RateLimiter` | `rate-limiter.go` | `buckets`, `tokens`, `lastRefresh`, `req`, `sweep` |
| `HubMC`, `AuctionRoomMC`, `HubManagerMC`, `AuctionSchedulerMC`, `RateLimiterMC` | the instances TLC checks | |
| `HubProofs` | types and channel discipline of `Hub` | |
| `HubBidProofs` | the history of bids; `Hub` implements `Auction` | |
| `HubPriceProofs` | what clients are told of the price, and in which order | |
| `RoomProofs` | `AuctionRoom` implements `Hub`; the prices its connections are shown | |
| `TablesProofs` | what the queries of `Tables` return | |
| `HubManagerProofs` | all six properties of `HubManager` | |
| `AuctionSchedulerProofs` | all safety properties of `AuctionScheduler` | |
| `RateLimiterProofs` | all four properties of `RateLimiter` | |

`BidRules` is the foundation of all but the limiter: `Hub` and `HubManager` judge bids with the same
`validateBid` and restore a hub with the same `RecoveredBid`. `Tables` extends it and is shared by
`HubManager`, where its answers decide what a hub is restored with and are compared with each other,
and by `AuctionScheduler`, where they decide who is mailed. The two pairs `AuctionRoom`/`Hub` and
`HubManager` look at the same hub from two sides: the first at its channels and clients during one
life, the second at its lives.

**Hub.** One action is one stretch of the hub goroutine between two points where another goroutine may
come in: a critical section of `h.mu`, or one send with a timeout. The registration of a client is
therefore several actions (`handleClientRegistration`, one `broadcastToOthers` per client of its
snapshot, `sendAuctionDataToClient`, `sendCurrentBidToClient`), with `hpc`, `hcur` and `htodo` as the
goroutine's place; handling a bid is one, because it happens under the lock and never waits
(`rejectBid`, `acceptBid`). `removeClientUnsafe`, `broadcastUnsafe`, `sendOrRemove` and
`sendToBidderUnsafe` are the helpers of the same names; `sendOrRemove` stands for the three sends that
give up (at once, after two, after three seconds) and remove the client. Sending on a closed channel
and closing one twice panic in Go and end the process: `panic` records which it was and stops every
action. Go's buffered channels are bounded sequences. A message is told apart only by whether it shows
a price; a bid carries the sender that its message names, which the server does not compare with the
connection's user (`SenderIDs`). `Register`, `Unregister`, `SubmitBid`, `SendReply` and `WriteMessage`
are the environment: they let any connection use the channels in any order.

**AuctionRoom.** The environment of `Hub` is replaced by what `JoinAuction`, `ReadPump` and `WritePump`
really do; every exchange on a channel is the action of `Hub` joined with the step of the pump. `rp`
and `wp` are the pumps' places, `rmsg` the answer `ReadPump` has ready, `conns` the connections that
still carry messages (either side, or either pump, may end one). A timeout is a disjunct that may
happen when there is no room.

**Auction** is the abstract specification: `Hub` maps `best` to `HighestBid`, `ledger` to the accepted
entries of `BidHistory` and `open` to `IsActive` before `EndTime`.

**HubManager.** One auction and the hubs it has one after another. Each critical section of
`HubManager.mu` is an action, and so is each statement on the database, so that a request to join may
be overtaken between `GetHub` (`ws-handler.go:49`), the reading of the row and `GetOrCreateHub`. `room`
holds of each hub what the manager and the tables can tell of it; `inserts` are the `AddBid` goroutines
under way, which use the hub's context and so die with it; `timer` is the goroutine a request to join
leaves behind to call `HandleAuctionEnd`. `Restart` leaves the tables only. `Faults` names what an
instance allows: a crash at any time, a graceful stop, `DeleteAuction`, inserts that fail for no reason.
Numbers: prices count in steps of which `Cent` make a cent and `Whole` a unit of currency. The hub tells steps
apart, `bids.amount` and the prices of `auctions` are `NUMERIC(10,2)`: `Stored` rounds to the cent, `Row` and
`RowAllowed` are the row an insert leaves and whether the column allows it (`MaxStored` is its width), and `Cut` is
the `int(...)` of `ws-handler.go:85`. A hub that `CreateHub` makes has the price and the increment of the request,
one that is restored those of the row, where a small increment may have become zero. Bids are numbered in
`accepted` as the hubs accept them, and an insert under way is a hub and a number. A client may bid as soon as it
is in `Register`, before the hub has taken it. A request that uses the nil hub of a
stopped manager ends in a panic that chi's `Recoverer` catches; only that request is gone (`broken`).
`performCleanup` may take any hub without clients after the end: whether its `lastActive` is a minute
old is left open.

**AuctionScheduler.** A run of the job is a sequence of statements and mails, each an action that may
fail instead; `cron` may start a run while others are under way. `age` counts the ticks of thirty
seconds since `updated_at`, which the trigger of the table renews with every client count; a row on the
edge of the minute may be found or not. `MailBidder` sends to the bidders in the order of
`GetBidsByAuctionID`, each once, and `MailSeller` to the seller unless he was among them. Bids
are stored at any time, in any order and with any amounts the column allows, equal ones too: what `HubManager`
sends to the table may tie once it is rounded, or after the loss of a hub. `late` and `again` only record what happened.

**RateLimiter.** A request looks its bucket up twice, to take a token and for its header or log line; each
operation of the `sync.Map` and each critical section of a bucket is an action, and the cleanup goes
through the keys one by one beside them. A tick brings `Rate` tokens; `RateLimiterAssumption` has the
one relation of the constants that matters, that a bucket fills up within its time to live (10 a second,
50, five minutes in the code). `spent` and `served` only record.

Abstractions. Prices are whole numbers of the smallest step the hub tells apart, which may be a fraction of a
cent; what `float64` itself rounds is not modelled, what the columns round is. Time is only what it decides: the end time passes at some point, timeouts may fire. The
price of one connection's snapshot and its bid's sender are read in one action where the code reads
twice, except in `sendCurrentBidAndCount`, where the unlocked second look is an action of its own
(`ReadPrice`). Sends inside `broadcastUnsafe` go to different channels and commute, so they are one
action. A write reaches the peer or the connection breaks. The manager's hubs are modelled for one
auction: auctions share the lock, which orders their critical sections, and nothing else. A statement
on the database is atomic. A bucket's tokens are counted in whole ticks.

## Runs

| run | instance | shows |
|---|---|---|
| `hub_safety` | 2 connections of 2 users, prices up to 2, 2 bids with any sender, `Send` of 1, `Bid` and `Unregister` of 1, `Register` of 2 | types and capacities; no double close and no broadcast on a closed channel; the accepted bids rise; every member has been sent the highest bid; the hub implements `Auction` |
| `hub_live` | the same with 1 bid and no answers, fair hub | joins and bids are served unless the hub is cancelled; a cancelled hub stops and closes its members' channels |
| `room_safety` | 2 connections with their pumps, 1 bid on a restored or new hub | a refused connection is not left open; the price a peer sees never falls while peers only bid |
| `room_live` | 1 connection, all seven kinds of request, 1 bid | the pumps stay within `Hub`; a member whose connection breaks is taken out; cancelling closes every connection |
| `room_panic` | 1 connection that pings, a `Send` of 3, so that its registration fits; the hub may be cancelled | **violated**: `ReadPump` answers on a channel the hub has closed |
| `room_ghost` | 1 connection that only joins | **violated**: a broken connection may stay a member for ever |
| `room_leak` | 2 connections, `Unregister` of 1 | **violated**: a `ReadPump` may never end once the hub has stopped |
| `manager_safety` | 2 requests to join, 2 users, 2 hubs, 2 accepted bids, prices up to 5 steps with 2 to the cent and 4 to the unit, a column that holds up to 4, one stop and restart, deletions | one running hub at a time; bids rise and nobody outbids himself until a hub is lost; the bid announced last wins; a stopped manager stays empty; a restored hub has a goroutine that will delete it |
| `manager_restart` | the same in whole units, prices up to 4 and a column of 3, without deletions | **violated**: after a graceful restart a bid below an announced one is accepted |
| `scheduler` | 1 auction, 2 users of whom one sells it, 2 runs side by side, 2 bids, 1 failure or crash, fair runs | how many mails each user gets, from one sending and in all; what a log entry says; whoever is named as the winner is mailed too; ended auctions get closed and logged |
| `scheduler_overlap` | the same without failures | **violated**: two runs mail the same auction |
| `rate_limiter` | 1 client, 3 requests, 1 token a tick, a capacity of 2, 2 ticks to live, 5 ticks, 2 buckets | a client's budget, over two generations of its bucket; whom the limiter refuses; what the cleanup removes |

Why the bounds are enough. A `Send` of one message makes every send of the hub meet both a channel with
room and a full one; two clients are what it takes for a broadcast to reach one and remove another, for
a bid to be outbid, and for a channel of the hub to be full of somebody else's message. Two bids and two
prices give an acceptance, a rejection and a second acceptance; the highest bid of a restored hub gives
a third. Two hubs are one that is lost and one restored; two requests are what a race for a hub takes, and
the handler that creates the auction is a third. Prices up to 5 with two steps to the cent and four to the unit give bids that are stored as they are and bids that
are rounded, two that are stored as equal (3 and 4), a current price that is cut and one that is not, and with a
column of 4 a bid that does not fit (5 is stored as 6). Two runs of the job overlap in
every way two can, and a third would only repeat it; two users are a winner and another bidder, a seller
who bids and one who does not. Three requests are one that holds a bucket that is
dropped, and two that race for the next. The theorems below do not depend on any of these bounds. Where
two connections, users or requests differ in nothing the run uses their symmetry.

Deadlock is checked in the scheduler only, which has always something to do. Of the hub the process ends at
a panic, and a hub whose connections are gone has nothing left to do; the manager stops where its bounds
are used up and the auction is over, the limiter when its clock is.

What the five violations say. When a hub is cancelled, in the shutdown or because its auction was deleted, ended
or cleaned up, it closes the `Send` of its clients while their `ReadPump`s run. One that has passed its look at the
context and then gets a ping sends the answer on the closed channel, which ends the whole server
(`NoSendOnClosed`): the `select` around that send also watches the context, but Go picks among the ready cases, and a
send on a closed channel is one. The trace is this one: join, complete the registration, cancel, ping, close, answer.
`Send` is closed as well when a client leaves and stays connected, or is dropped for being slow; the same property
fails there, in longer runs. The hub itself does the same in a corner: the
current bid after auction data that timed out (`hub.go:124`). A connection that breaks immediately has
both `Register` and `Unregister` waiting, and `select` may take the second first (`BrokenLeaves`);
`BrokenMembersLeave` shows that it is only this case. And `client.go:34` waits without a timeout
(`CancelEndsPumps`); `CancelClosesConnections` shows that the connection at least gets closed, by
`WritePump`. A bid is announced while its insert is under way under the hub's context, which `Stop`
cancels: the next server starts from a lower price than the last one announced (`AcceptedRises`);
`RisesUntilLoss` shows that it takes the loss of a hub before the end. And the scheduler's second look at
the log does not help against a run that has not got as far as writing it (`MailedOnce`);
`MailedOnceUndisturbed` shows that it takes an overlap, a crash or a failed log entry.

Fairness. Weak fairness of the hub goroutine and of every pump: the Go scheduler runs each goroutine that
can run, and every wait but that of `client.go:34` has a timeout. Strong fairness of each case of the
hub's `select`: Go picks evenly among the ready cases, so a case that is ready again and again is taken.
Strong fairness of `ExitReadPump`: goroutines waiting to send on a channel are served in turn. Nothing is
assumed of the peers, of `Cancel` or of the end time. In the scheduler each run goes on and cron goes on
starting runs, whose statements may still fail as often as `MaxFaults` says; nothing is assumed of bids,
clients and the clock. `EndedGetsLogged` holds under two conditions, both needed: nothing fails, because
an auction is looked for during one minute only, and runs get to their list of auctions within a tick,
because otherwise the list of one may be read after the minute that another began.

## Proofs

For any clients, users, requests, hubs, auctions, runs and keys, any capacities, rates, prices and number of
bids, restarts and failures, TLAPS proves:

| theorem | says |
|---|---|
| `HubProofs!TypeCorrect` | `Spec => []TypeOK` |
| `HubProofs!ChannelsKept` | `Spec => []ChannelDiscipline` |
| `HubBidProofs!HistoryCorrect` | `Spec => []HistoryRises` |
| `HubBidProofs!HubImplementsAuction` | `Spec => ImplementsAuction` |
| `RoomProofs!RoomTypeCorrect` | `RoomSpec => []RoomTypeOK` |
| `RoomProofs!RoomImplementsHub` | `RoomSpec => ImplementsHub` |
| `RoomProofs!RoomKeepsPromises` | `RoomSpec => ImplementsAuction /\ []ChannelDiscipline` |
| `HubPriceProofs!MembersCorrect` | `Spec => []MembersInformed`, if no `Reply` shows a price |
| `RoomProofs!RoomMembersCorrect` | `RoomSpec => []MembersInformed`, if no peer asks for the price |
| `RoomProofs!PricesRise` | `RoomSpec => ShownRises`, if no peer asks for the price |
| `HubManagerProofs!TypeCorrect` | `Spec => []TypeOK` |
| `HubManagerProofs!OneHubCorrect` | `Spec => []OneHub` |
| `HubManagerProofs!StopCorrect` | `Spec => []StoppedStaysEmpty` |
| `HubManagerProofs!RestoredCorrect` | `Spec => []RestoredHubsGo` |
| `HubManagerProofs!RisesCorrect` | `Spec => []RisesUntilLoss` |
| `HubManagerProofs!AnnouncedCorrect` | `Spec => []AnnouncedBidWins` |
| `AuctionSchedulerProofs!TypeCorrect` | `Spec => []TypeOK` |
| `AuctionSchedulerProofs!OneMailCorrect` | `Spec => []OneMailPerSending` |
| `AuctionSchedulerProofs!MailedOnceCorrect` | `Spec => []MailedOnceUndisturbed` |
| `AuctionSchedulerProofs!LogCorrect` | `Spec => []LoggedMeansMailed` |
| `AuctionSchedulerProofs!WinnerCorrect` | `Spec => []WinnerMailed` |
| `RateLimiterProofs!TypeCorrect` | `Spec => []TypeOK` |
| `RateLimiterProofs!BoundCorrect` | `Spec => []KeyBounded` |
| `RateLimiterProofs!RefusalCorrect` | `Spec => RefusedOnlyIfServed` |
| `RateLimiterProofs!CleanupCorrect` | `Spec => CleanupForgetsNothing` |

Those of the hub and the room rest on `BidRulesAssumption`, `NoBidAssumption` and `HubAssumption` (finitely many clients, capacities
of at least one, a price and an increment that are not negative) and, for the room,
`ReplyAssumption` (the hub's environment may answer with any message). Those of the manager rest on
`BidRulesAssumption`, `NoBidAssumption`, `ColumnAssumption` (a cent is at least one step, and the column is no wider
than what the hub accepts, which is 10^13 against 10^8) and `HubManagerAssumption`, those of the scheduler on the first three and
`SchedulerAssumption` (the bounds are numbers and the seller is a user), those of the limiter on
`RateLimiterAssumption`.

*Types.* `TypeOK` is inductive once it is added that `hcur` is a client during a registration
(`TypeInv`, in the parts `MembersTyped`, `RestTyped` and `JoiningTyped`). The lemmas
`GiveTyped`, `RemoveTyped`, `SendOrRemoveTyped`, `BroadcastTyped` and `SendToBidderTyped` say what the
helpers keep.

*Channel discipline.* `ChannelInv`: no member's channel is closed; whoever a broadcast still has to reach is
a member, although the snapshot was taken earlier, because only the hub goroutine removes clients and
it removes the one it is sending to; and a client waits in `Register` once, before it was ever a member. The
last is why a late `Unregister` cannot lead to a second close. What is *not* in the invariant is that the
client being registered is still a member: that fails, see `hub.go:124` above.

*History.* `HistoryInv` adds that no accepted bid is above the highest; `EntryKeepsHistory` is the step.

*Refinement.* `acceptBid` is `Raise`; the first of `CancelFlag` and `EndTimePasses` is `Close`; everything
else, the rejection with its history entry included, is a stutter. For the room, `RoomStepIsHubStep`
takes each step of a pump to a step of `Hub`'s environment; its own invariant is the typing of the answer
`ReadPump` holds, for which there must be a highest bid during `ReadPrice` (`PriceInHand`).

*Prices.* Three theorems have a hypothesis, that nobody asks for the price; they do not hold without it, because
the answer to `get_auction_data` or `current_bid` holds the price of the moment the request was read and may
enter `Send` after a later update. `QuietNext` are the steps of a hub whose connections do not ask;
`QuietReplies` and `QuietRoomStep` reduce the hub and the room to it. `InformedInv` adds to `MembersInformed`
that the hub goroutine holds a client only while it registers one, so that whoever ceases to be excepted has
just been sent the highest bid. `OrderInv` says of every channel that its prices rise, from the one shown last up
to the highest bid's (`Rising`); hence whatever `WritePump` takes is no lower than what it took before. Both rest
on what one message more and one message less do to a channel (`AppendedPriceIsLast`, `OtherMessageKeepsLast`,
`TakingKeepsLast`, `AppendingKeepsRising`, `TakingKeepsRising`), and need no induction over it.

*Tables.* The queries pick a row by its amount and its time. That there is such a row is `LargestExists`, from
the well-foundedness of the natural numbers; `NextListedFacts` says so of the row an `ORDER BY` lists next.
Rounding keeps the order of amounts (`StoredInOrder`), though not the difference between them. When one row alone
bears the largest amount, all queries agree on the winner (`WinnerAgreed`); when several do, the mails' winner is one
of them (`HighestIsTop`), but not the one the pages show.

*HubManager.* `OneHub`, `StoppedStaysEmpty` and `RestoredHubsGo` are inductive together (`MapInv`), given the
types. `RisesUntilLoss` is not: `RiseInv` adds that before the end there is one hub as long as none was lost, and
that its highest bid is the last one accepted. Why no second one can follow it is `EndsLate`: a timer does its
work after the end only, and whatever else takes a hub out of the map before counts as a loss. After the end
nothing is accepted. `AnnouncedBidWins` needs to know where the rows come from, because amounts do not tell it: two
accepted bids may be stored as the same row. `BidsInv` says that each row is the stored form of an accepted bid of
its own, which is no longer under way (`Places`). When there are as many rows as accepted bids, every accepted bid
has its row, by the pigeonhole principle (`AllStored`). The last one is the highest accepted, by `RiseInv`, hence its row
bears the largest amount, by `StoredInOrder`, and alone unless an earlier one was rounded to it.

*AuctionScheduler.* `RunInv` types the records of the runs. `OwedInv` makes `OneMailPerSending` inductive:
the mails a user got and those that sendings under way still owe him are together no more than the sendings;
the number of the latter changes by one at most in a step, which is where the theorems on cardinalities come in.
`OnceInv`, for an undisturbed history, says that one run at most is under way, that what it sends about is not
logged, that an auction somebody was mailed about is logged or in that run's hands, and that the run remembers
whom it mailed. `EndedInv`: what is listed, sent, logged and named has `ENDED`, which is final, so that every later
bid makes the auction `late`. `MailedInv` says of a run at its last mail that its list is the whole table, and of
one before the log that everybody was mailed. `WinnerInv` says that the winner a run holds has a row, and one on the run's list, because the list is read after
the highest bid and rows are never taken away; so he is mailed before the run gets past its list. It also says of whoever was
named that he is mailed or that such a run still has him ahead.

*Rate limiter.* `LimiterInv` is the conjunction of `TypeOK` and three parts. `KeyInv` says whose a bucket is:
it is in the map once at most and not after its removal, and who holds a bucket has that of its key or one
that was removed. Without it a step on one bucket could disturb the account of another key. `CreditInv`
says that an empty bucket was last refreshed no later than its key was served; hence `RefusalCorrect`,
since a refusal needs an empty bucket that was refreshed this instant. `BudgetInv` says that what a key
was given, together with the tokens in its bucket, is covered by its capacity and what had come at the last
refresh, and that a key without a bucket is owed its whole capacity. That a removal keeps the second
is where the time to live comes in (`RestedIsFull`). The products `Rate * time` are split in one lemma,
`Earned`, and hidden behind names everywhere else.

Only model-checked: the liveness properties (TLAPS has no fairness reasoning here), and the five violations.
Every invariant and action property of a passing run is a theorem; `MembersInformed` and `ShownRises` under the
hypothesis above, which the runs `hub_safety` and `room_safety` meet by the values of `Reply` and `Requests`.

## Not modelled

- Parsing, wording, JSON and HTTP, and what the validators of a request check: pure functions of one
  request. What the hub needs of them, a price and an increment that are not negative, is `BidRulesAssumption`.
- Registration, login, OAuth and tokens: sequential handlers over the one table `users`. Whether a request
  passes them is a choice of the environment.
- Categories, the listings that only filter and page, the timeline and the readers of single bids: queries
  that nothing else depends on. The store's `GetAuctionsByUserID` and `RemoveCategory` likewise.
- `CheckGlobalLimit` with its Redis script, `Reset` and `Stop` of the limiter, `UpdateHubID`: no caller.
- The websocket ping ticker: a silent peer is a connection that may break. `lastActive`: the cleanup may
  find a hub quiet at any time.
- What `float64` rounds, of prices as of tokens. What the columns round of prices is modelled.
- The order in which client counts reach the table: each write counts in the scheduler, because it renews
  `updated_at`, but nothing reads the number itself except for display.
- Start-up, routes, configuration, the seed and the upload: no state of their own.

Equal bids. The queries break ties in two ways: the mails take the latest of the largest bids (`bid.go:112`), the
auction's page and the users' pages the earliest (`auction.go:387`, `user.go:52`), and the statistics count every
bidder of the largest amount as a winner. Two stored bids are equal when the increment is below a cent, which
`ValidatePrice` (`pkg/utils/validation.go:124`) allows, or when a hub was lost and its successor accepted what its predecessor had. Then the server
names different winners, with no failure anywhere in the first case. `AnnouncedBidWins` shows that, when no hub was lost
and every accepted bid was stored, the queries agree unless an earlier bid was rounded to the same cent, and that the
bidder announced last counts as a winner even then; `WinnerMailed` holds with ties. No document says which of two equal bids should win.

Hazards without a property: the answer to `current_bid` that may mix two bids (`client.go:207`), which of two
connections of a user is told of a rejection (`hub.go:330`), the order of client counts (`hub.go:107`), bids before the start of an auction
(`hub.go:169`), amounts wider than their column (`hub.go:183`), the price cut in a restored hub
(`ws-handler.go:85`), the nil hub of a stopped manager (`ws-handler.go:119`), the row of a deleted auction
(`http-handler.go:415`), mails that are sent again after a crash or a failed log entry (`scheduler.go:87`, `scheduler.go:100`) or
lost after a failure (`auction.go:660`, `mail.go:108`), and an auction whose whole window
passes while the job fails (`auction.go:142`). The modules have these behaviours; no document of the repository says what
should happen instead, so no property refuses them, and the properties nearby except them by name.

## Plan

The model and the safety proofs are complete in the sense above. What is left:

1. `Auction`: its own promises (prices in the ledger rise, no bid after `Close`) as theorems of the abstract
   specification, so that a hub inherits them through the refinement.
2. `AuctionRoom`: what does hold when peers ask for the price, namely that a member that is sent no answer
   afterwards is informed by the next accepted bid.
3. `HubManager`: the relation of its `room` records to the state of `Hub`, as a refinement of the manager's
   hub steps for the time one hub lives.
