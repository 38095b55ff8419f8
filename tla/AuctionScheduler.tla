-------------------------- MODULE AuctionScheduler --------------------------
(***************************************************************************)
(* The cron job that opens and closes auctions and mails their results,    *)
(* with the mail service it calls.  cron starts a run of the job every     *)
(* thirty seconds, whether or not earlier runs have ended; nothing but the *)
(* tables auctions and auction_email_logs connects one run with another.   *)
(*                                                                         *)
(* One action is one statement on the database or one mail.  Any of them   *)
(* may fail, the process may end between any two, and inserts of bids that *)
(* were accepted before the end of the auction may still be under way.     *)
(***************************************************************************)
EXTENDS Tables

CONSTANTS
  Auction,       \* the auctions
  Seller,        \* who sells them
  MaxRuns,       \* bound: runs of the job at the same time
  MaxBids,       \* bound: bids stored for one auction
  MaxFaults      \* bound: statements and mails that fail, and crashes

VARIABLES
  phase,         \* the clock against start_date and end_date, per auction
  status,        \* auctions.status
  age,           \* ticks since auctions.updated_at
  bids,          \* the rows of bids, per auction
  logged,        \* the auctions in auction_email_logs
  run,           \* the runs of the job
  mails,         \* mails sent, per auction and user
  sendings,      \* how often the mails of an auction were begun
  named,         \* the winners the mails of an auction have named
  faults,        \* failures so far
  late,          \* auctions that got a bid stored after they were marked ended
  again          \* something happened after which mails may be sent again

auctionVars == <<phase, status, age, bids>>
mailVars == <<mails, sendings, named>>
ghostVars == <<late, again>>

vars == <<auctionVars, logged, run, mailVars, faults, ghostVars>>

ASSUME SchedulerAssumption ==
  /\ Seller \in User
  /\ MaxRuns \in Nat
  /\ Nobody \notin Auction
  /\ MaxBids \in Nat
  /\ MaxFaults \in Nat

\* Runs under way are told apart by numbers; a new one takes the first free.
Slot == 1..MaxRuns

\* A tick is thirty seconds.  What was updated less than two ticks ago is
\* younger than a minute; after the third tick it is not.
Window == 2

Idle == [at |-> "idle", todo |-> {}, auction |-> Nobody, winner |-> NoBid, rows |-> 0,
         told |-> {}]

Init ==
  /\ phase = [a \in Auction |-> "early"]
  /\ status = [a \in Auction |-> "INACTIVE"]
  /\ age = [a \in Auction |-> 0]
  /\ bids = [a \in Auction |-> <<>>]
  /\ logged = {}
  /\ run = [r \in Slot |-> Idle]
  /\ mails = [a \in Auction |-> [u \in User |-> 0]]
  /\ sendings = [a \in Auction |-> 0]
  /\ named = [a \in Auction |-> {}]
  /\ faults = 0
  /\ late = {}
  /\ again = FALSE

-----------------------------------------------------------------------------
(* The rest of the server, as far as the tables show it.                     *)

TimePasses(a) ==
  /\ \/ phase[a] = "early" /\ phase' = [phase EXCEPT ![a] = "open"]
     \/ phase[a] = "open" /\ phase' = [phase EXCEPT ![a] = "over"]
  /\ UNCHANGED <<status, age, bids, logged, run, mailVars, faults, ghostVars>>

\* An accepted bid reaches the table, sooner or later and in no order.  Two of
\* them may have the same amount there, from the same cent or from two hubs.
InsertBid(a, b) ==
  /\ Len(bids[a]) < MaxBids
  /\ RowAllowed(b)
  /\ bids' = [bids EXCEPT ![a] = Append(@, Row(b))]
  /\ late' = IF status[a] = "ENDED" THEN late \cup {a} ELSE late
  /\ UNCHANGED <<phase, status, age, logged, run, mailVars, faults, again>>

\* A client comes or goes: the trigger of the table sets updated_at.
UpdateAuctionClientCount(a) ==
  /\ age[a] # 0
  /\ age' = [age EXCEPT ![a] = 0]
  /\ UNCHANGED <<phase, status, bids, logged, run, mailVars, faults, ghostVars>>

-----------------------------------------------------------------------------
(* The job.                                                                  *)

Fault == faults < MaxFaults /\ faults' = faults + 1

NoFault == UNCHANGED faults

Goes(r, place) == run' = [run EXCEPT ![r].at = place]

\* The loop goes on with the next auction, or the run ends.
NextAuction(r) ==
  LET rest == run[r].todo \ {run[r].auction}
  IN  run' = [run EXCEPT ![r] = IF rest = {} THEN Idle
                                ELSE [Idle EXCEPT !.at = "check", !.todo = rest]]

\* cron: thirty seconds are over and a run starts.  Stop stops a cron object
\* that was never started, so runs go on starting until the process ends.
Tick(r) ==
  /\ run[r].at = "idle"
  /\ \A s \in Slot : s < r => run[s].at # "idle"
  /\ Goes(r, "activate")
  /\ age' = [a \in Auction |-> IF age[a] > Window THEN age[a] ELSE age[a] + 1]
  /\ again' = (again \/ \E s \in Slot : run[s].at # "idle")
  /\ UNCHANGED <<phase, status, bids, logged, mailVars, faults, late>>

\* UPDATE auctions SET status = new, for the auctions of S.
Mark(S, new) ==
  /\ status' = [a \in Auction |-> IF a \in S THEN new ELSE status[a]]
  /\ age' = [a \in Auction |-> IF a \in S THEN 0 ELSE age[a]]

MarkAuctionsActive(r) ==
  /\ run[r].at = "activate"
  /\ Goes(r, "end")
  /\ \/ NoFault /\ Mark({a \in Auction : status[a] = "INACTIVE" /\ phase[a] = "open"}, "ACTIVE")
     \/ Fault /\ UNCHANGED <<status, age>>
  /\ UNCHANGED <<phase, bids, logged, mailVars, ghostVars>>

\* Faulty variant: an auction is ended only in the run that finds it young.
MarkYoungAuctionsEnded(r) ==
  /\ run[r].at = "end"
  /\ Goes(r, "fetch")
  /\ \/ /\ NoFault
        /\ Mark({a \in Auction : status[a] = "ACTIVE" /\ phase[a] = "over" /\ age[a] < Window},
                "ENDED")
     \/ Fault /\ UNCHANGED <<status, age>>
  /\ UNCHANGED <<phase, bids, logged, mailVars, ghostVars>>

MarkAuctionsEnded(r) ==
  /\ run[r].at = "end"
  /\ Goes(r, "fetch")
  /\ \/ NoFault /\ Mark({a \in Auction : status[a] = "ACTIVE" /\ phase[a] = "over"}, "ENDED")
     \/ Fault /\ UNCHANGED <<status, age>>
  /\ UNCHANGED <<phase, bids, logged, mailVars, ghostVars>>

\* updated_at >= NOW() - INTERVAL '1 minute', for certain.
Recently(a) == age[a] < Window

\* The ids of the ended auctions of the last minute that are not logged; on
\* the edge of the minute it depends on the instant.
GetRecentlyEndedAuctionIDs(r) ==
  /\ run[r].at = "fetch"
  /\ LET found == {a \in Auction \ logged : status[a] = "ENDED"}
     IN  \/ /\ NoFault
            /\ \E S \in SUBSET {a \in found : age[a] = Window} :
                 LET ids == S \cup {a \in found : Recently(a)}
                 IN  run' = [run EXCEPT ![r] = IF ids = {} THEN Idle
                                               ELSE [Idle EXCEPT !.at = "check", !.todo = ids]]
         \/ Fault /\ run' = [run EXCEPT ![r] = Idle]
  /\ UNCHANGED <<auctionVars, logged, mailVars, ghostVars>>

\* The next auction of the list; one that is logged by now, or whose log
\* cannot be read, is passed over.
HasAuctionEmailBeenSent(r, a) ==
  /\ run[r].at = "check"
  /\ a \in run[r].todo
  /\ LET rest == run[r].todo \ {a}
         pass == run' = [run EXCEPT ![r] = IF rest = {} THEN Idle
                                           ELSE [run[r] EXCEPT !.todo = rest]]
     IN  \/ /\ NoFault
            /\ IF a \in logged THEN pass
               ELSE run' = [run EXCEPT ![r].auction = a, ![r].at = "auction"]
         \/ Fault /\ pass
  /\ UNCHANGED <<auctionVars, logged, mailVars, ghostVars>>

-----------------------------------------------------------------------------
(* MailService.SendAuctionEndedEmail                                         *)

\* An error ends the sending, and the job leaves the auction unlogged.
GetAuction(r) ==
  LET a == run[r].auction
  IN  /\ run[r].at = "auction"
      /\ \/ /\ NoFault
            /\ IF GetAuctionByID(status[a], 0, bids[a]).status = "ENDED"
               THEN Goes(r, "highest") ELSE Goes(r, "log")
         \/ Fault /\ NextAuction(r)
      /\ UNCHANGED <<auctionVars, logged, mailVars, ghostVars>>

\* Faulty variant: the sending goes on when there is no bid.
GetHighestBidUnchecked(r) ==
  LET a == run[r].auction
  IN  /\ run[r].at = "highest"
      /\ NoFault
      /\ run' = [run EXCEPT ![r].winner = IF bids[a] = <<>> THEN NoBid
                                          ELSE GetHighestBidForAuction(bids[a]),
                             ![r].at = "winner"]
      /\ UNCHANGED <<auctionVars, logged, mailVars, ghostVars>>

\* Faulty variant: an auction without bids is an error and stays unlogged.
GetHighestBidStrictly(r) ==
  LET a == run[r].auction
  IN  /\ run[r].at = "highest"
      /\ NoFault
      /\ IF bids[a] = <<>>
         THEN NextAuction(r)
         ELSE run' = [run EXCEPT ![r].winner = GetHighestBidForAuction(bids[a]),
                                 ![r].at = "winner"]
      /\ UNCHANGED <<auctionVars, logged, mailVars, ghostVars>>

\* No bids, or any error: nothing to send, which counts as a success.
GetHighestBid(r) ==
  LET a == run[r].auction
  IN  /\ run[r].at = "highest"
      /\ \/ /\ NoFault
            /\ IF bids[a] = <<>>
               THEN Goes(r, "log")
               ELSE run' = [run EXCEPT ![r].winner = GetHighestBidForAuction(bids[a]),
                                       ![r].at = "winner"]
         \/ Fault /\ Goes(r, "log")
      /\ UNCHANGED <<auctionVars, logged, mailVars, ghostVars>>

GetWinner(r) ==
  /\ run[r].at = "winner"
  /\ \/ NoFault /\ Goes(r, "bids")
     \/ Fault /\ NextAuction(r)
  /\ UNCHANGED <<auctionVars, logged, mailVars, ghostVars>>

\* Faulty variant: the log is written as soon as the bids are known.
GetBidsAndLog(r) ==
  LET a == run[r].auction
  IN  /\ run[r].at = "bids"
      /\ NoFault
      /\ run' = [run EXCEPT ![r].rows = Len(bids[a]), ![r].at = "mail"]
      /\ sendings' = [sendings EXCEPT ![a] = @ + 1]
      /\ logged' = logged \cup {a}
      /\ UNCHANGED <<auctionVars, mails, named, ghostVars>>

GetBids(r) ==
  LET a == run[r].auction
  IN  /\ run[r].at = "bids"
      /\ \/ /\ NoFault
            /\ run' = [run EXCEPT ![r].rows = Len(bids[a]), ![r].at = "mail"]
            /\ sendings' = [sendings EXCEPT ![a] = @ + 1]
         \/ Fault /\ NextAuction(r) /\ UNCHANGED sendings
      /\ UNCHANGED <<auctionVars, logged, mails, named, ghostVars>>

\* One mail about a to u, which names w as the winner; it goes out or fails.
SendEmail(a, u, w) ==
  \/ /\ NoFault
     /\ mails' = [mails EXCEPT ![a][u] = @ + 1]
     /\ named' = [named EXCEPT ![a] = @ \cup {w}]
  \/ Fault /\ UNCHANGED <<mails, named>>

sendWinnerEmail(a, u) == SendEmail(a, u, u)

sendParticipantEmail(a, u, w) == SendEmail(a, u, w)

sendSellerEmail(a, w) == SendEmail(a, Seller, w)

\* The rows of the list whose bidder has had no turn yet.
Untold(r) ==
  {i \in 1..run[r].rows : bids[run[r].auction][i].sender \notin run[r].told}

\* Faulty variant: bidders are not remembered, so the seller who bid is told
\* once more.
SellerAlways(r) ==
  LET a == run[r].auction
  IN  /\ run[r].at = "mail"
      /\ Untold(r) = {}
      /\ Goes(r, "log")
      /\ sendSellerEmail(a, run[r].winner.sender)
      /\ UNCHANGED <<auctionVars, logged, sendings, ghostVars>>

\* Faulty variant: the highest bid is read again for every mail.
MailBidderRereading(r) ==
  LET a == run[r].auction
      u == bids[a][NextListed(bids[a], Untold(r))].sender
      w == GetHighestBidForAuction(bids[a]).sender
  IN  /\ run[r].at = "mail"
      /\ Untold(r) # {}
      /\ run' = [run EXCEPT ![r].told = @ \cup {u}]
      /\ SendEmail(a, u, w)
      /\ UNCHANGED <<auctionVars, logged, sendings, ghostVars>>

\* The next bidder of the list, from the highest bid down: the winner's mail
\* or a participant's.
MailBidder(r) ==
  LET a == run[r].auction
      u == bids[a][NextListed(bids[a], Untold(r))].sender
      w == run[r].winner.sender
  IN  /\ run[r].at = "mail"
      /\ Untold(r) # {}
      /\ run' = [run EXCEPT ![r].told = @ \cup {u}]
      /\ IF u = w THEN sendWinnerEmail(a, u) ELSE sendParticipantEmail(a, u, w)
      /\ UNCHANGED <<auctionVars, logged, sendings, ghostVars>>

\* The seller comes last, unless he was among the bidders.
MailSeller(r) ==
  LET a == run[r].auction
  IN  /\ run[r].at = "mail"
      /\ Untold(r) = {}
      /\ Goes(r, "log")
      /\ IF Seller \in run[r].told
         THEN UNCHANGED <<mails, named, faults>>
         ELSE sendSellerEmail(a, run[r].winner.sender)
      /\ UNCHANGED <<auctionVars, logged, sendings, ghostVars>>

-----------------------------------------------------------------------------

\* Faulty variant: the log is never written.
ForgetToLog(r) ==
  /\ run[r].at = "log"
  /\ NextAuction(r)
  /\ UNCHANGED <<auctionVars, logged, mailVars, faults, ghostVars>>

LogAuctionEmailSent(r) ==
  /\ run[r].at = "log"
  /\ NextAuction(r)
  /\ \/ NoFault /\ logged' = logged \cup {run[r].auction} /\ UNCHANGED again
     \/ Fault /\ again' = TRUE /\ UNCHANGED logged
  /\ UNCHANGED <<auctionVars, mailVars, late>>

\* The process ends, in a crash or after the shutdown, and a new one starts.
Crash ==
  /\ Fault
  /\ run' = [r \in Slot |-> Idle]
  /\ again' = TRUE
  /\ UNCHANGED <<auctionVars, logged, mailVars, late>>

-----------------------------------------------------------------------------

RunStep(r) ==
  \/ MarkAuctionsActive(r)
  \/ MarkAuctionsEnded(r)
  \/ GetRecentlyEndedAuctionIDs(r)
  \/ \E a \in Auction : HasAuctionEmailBeenSent(r, a)
  \/ GetAuction(r)
  \/ GetHighestBid(r)
  \/ GetWinner(r)
  \/ GetBids(r)
  \/ MailBidder(r)
  \/ MailSeller(r)
  \/ LogAuctionEmailSent(r)

TableStep(a) ==
  \/ TimePasses(a)
  \/ UpdateAuctionClientCount(a)
  \/ \E b \in Bid : InsertBid(a, b)

Next ==
  \/ \E r \in Slot : Tick(r) \/ RunStep(r)
  \/ \E a \in Auction : TableStep(a)
  \/ Crash

Spec == Init /\ [][Next]_vars

\* Every run goes on, and cron goes on starting runs.
Fairness ==
  /\ \A r \in Slot : WF_vars(RunStep(r))
  /\ WF_vars(\E r \in Slot : Tick(r))

FairSpec == Spec /\ Fairness

-----------------------------------------------------------------------------
(* Properties.                                                               *)

RunPlace == {"idle", "activate", "end", "fetch", "check", "auction", "highest", "winner",
             "bids", "mail", "log"}

\* The types; a run that is sending has an auction, a winner and its list.
TypeOK ==
  /\ phase \in [Auction -> {"early", "open", "over"}]
  /\ status \in [Auction -> {"INACTIVE", "ACTIVE", "ENDED"}]
  /\ age \in [Auction -> 0..Window + 1]
  /\ bids \in [Auction -> Seq(Bid)]
  /\ logged \subseteq Auction
  /\ \A r \in Slot :
       /\ run[r].at \in RunPlace
       /\ run[r].todo \subseteq Auction
       /\ run[r].told \subseteq User
       /\ run[r].at \in {"auction", "highest", "winner", "bids", "mail", "log"}
            => run[r].auction \in Auction
       /\ run[r].at \in {"winner", "bids", "mail"} => run[r].winner \in Bid
       /\ run[r].at = "mail" => run[r].rows \in 1..Len(bids[run[r].auction])
  /\ mails \in [Auction -> [User -> Nat]]
  /\ sendings \in [Auction -> Nat]
  /\ named \in [Auction -> SUBSET User]
  /\ faults \in 0..MaxFaults
  /\ late \subseteq Auction
  /\ again \in BOOLEAN

\* Nobody gets two mails from one sending, whether he bid several times, won,
\* or is the seller and bid himself (mail.go: bidderMap).
OneMailPerSending ==
  \A a \in Auction : \A u \in User : mails[a][u] <= sendings[a]

\* Nobody is mailed twice about an auction (scheduler.go: the log, and its
\* second look at it).
MailedOnce == \A a \in Auction : \A u \in User : mails[a][u] <= 1

\* MailedOnce holds unless two runs overlap, the process ends or the log cannot
\* be written: the later updates of the row that bring an auction back into the
\* window, and sendings that failed before the first mail, do no harm.
MailedOnceUndisturbed == ~again => MailedOnce

\* An auction is logged only when everybody has been mailed: every bidder the
\* auction's page lists and its seller, unless something failed or a bid came
\* after the end (scheduler.go: the log is written last).
LoggedMeansMailed ==
  \A a \in logged \ late :
    (faults = 0 /\ bids[a] # <<>>) =>
       \A u \in GetAuctionByID(status[a], 0, bids[a]).participants \cup {Seller} :
          mails[a][u] >= 1

\* Whomever a mail names as the winner is mailed himself: as long as nothing
\* failed, he has his mail or the run that holds him for the winner is still
\* mailing, although bids are stored between the query for the highest bid and
\* the one for the list, in the middle of the mails, and between the sendings of
\* different runs, which may then name different winners (mail.go: the highest
\* bid is read before the list, and once).
WinnerMailed ==
  faults = 0 =>
    \A a \in Auction : \A w \in named[a] :
      \/ mails[a][w] >= 1
      \/ \E r \in Slot :
           run[r].at = "mail" /\ run[r].auction = a /\ run[r].winner.sender = w

\* An auction that was opened is closed once its time is over, whatever failed
\* in the meantime (scheduler.go: every run tries again).
ActivatedEnds ==
  \A a \in Auction : (status[a] = "ACTIVE" /\ phase[a] = "over") ~> status[a] = "ENDED"

\* A run starts before another one has got to its list of auctions.
Overtaken ==
  \E r, s \in Slot :
    r # s /\ run[r].at = "activate" /\ run[s].at \in {"activate", "end", "fetch"}

\* An auction that was closed gets its mails and its log entry, with bids or
\* without, as long as nothing fails and every run gets to its list of auctions
\* within thirty seconds, however long the mails then take.
EndedGetsLogged ==
  []~Overtaken => \A a \in Auction : status[a] = "ENDED" ~> (a \in logged \/ faults > 0)
=============================================================================
