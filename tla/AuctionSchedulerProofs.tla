------------------------ MODULE AuctionSchedulerProofs ------------------------
(***************************************************************************)
(* What the job and its mails promise, for any number of auctions, users,  *)
(* bids, runs at the same time and failures.                               *)
(***************************************************************************)
EXTENDS AuctionScheduler, TablesProofs, FiniteSetTheorems

-----------------------------------------------------------------------------
(* The runs of the job.                                                      *)

Sending == {"auction", "highest", "winner", "bids", "mail", "log"}

Run == [at : RunPlace, todo : SUBSET Auction, auction : Auction \cup {Nobody},
        winner : Bid \cup {NoBid}, rows : Nat, told : SUBSET User]

\* A run that is sending has an auction; once it has a winner there is a bid,
\* and the list it goes through is a part of the table.
RunOK(r) ==
  /\ run[r].at \in Sending => run[r].auction \in Auction
  /\ run[r].at \in {"winner", "bids", "mail"} =>
       run[r].winner \in Bid /\ bids[run[r].auction] # <<>>
  /\ run[r].at = "mail" => run[r].rows \in 1..Len(bids[run[r].auction])

RunInv ==
  /\ TypeOK
  /\ run \in [Slot -> Run]
  /\ \A r \in Slot : RunOK(r)

\* What a step of run r leaves alone.
Others(r) == \A s \in Slot \ {r} : run'[s] = run[s]

LEMMA IdleTyped == Idle \in Run
  BY DEF Idle, Run, RunPlace

LEMMA RunSet ==
  ASSUME run \in [Slot -> Run], NEW r \in Slot, NEW x \in Run, run' = [run EXCEPT ![r] = x]
  PROVE  run' \in [Slot -> Run] /\ run'[r] = x /\ Others(r)
<1>. HIDE DEF Slot, Run
<1>. QED
  BY DEF Others

\* A run goes on in the same sending.
LEMMA GoesOn ==
  ASSUME run \in [Slot -> Run], NEW r \in Slot, NEW place \in RunPlace, Goes(r, place)
  PROVE  /\ run' \in [Slot -> Run] /\ Others(r)
         /\ run'[r].at = place
         /\ run'[r].todo = run[r].todo /\ run'[r].auction = run[r].auction
         /\ run'[r].winner = run[r].winner /\ run'[r].rows = run[r].rows
         /\ run'[r].told = run[r].told
<1>. DEFINE x == [run[r] EXCEPT !.at = place]
<1>. HIDE DEF Slot
<1>1. run[r] \in Run
  OBVIOUS
<1>2. /\ x \in Run /\ x.at = place
      /\ x.todo = run[r].todo /\ x.auction = run[r].auction
      /\ x.winner = run[r].winner /\ x.rows = run[r].rows /\ x.told = run[r].told
  BY <1>1 DEF Run
<1>3. run' = [run EXCEPT ![r] = x]
  BY DEF Goes
<1>. HIDE DEF x
<1>. QED
  BY <1>2, <1>3, RunSet

\* A run turns to the list of auctions that is left, or ends.
LEMMA TurnsTo ==
  ASSUME run \in [Slot -> Run], NEW r \in Slot, NEW S \in SUBSET Auction,
         run' = [run EXCEPT ![r] = IF S = {} THEN Idle ELSE [Idle EXCEPT !.at = "check", !.todo = S]]
  PROVE  /\ run' \in [Slot -> Run] /\ Others(r)
         /\ run'[r].at \in {"idle", "check"}
         /\ run'[r].todo \subseteq S /\ run'[r].told = {}
<1>. DEFINE x == IF S = {} THEN Idle ELSE [Idle EXCEPT !.at = "check", !.todo = S]
<1>1. x \in Run /\ x.at \in {"idle", "check"} /\ x.todo \subseteq S /\ x.told = {}
  BY DEF Idle, Run, RunPlace
<1>2. run' = [run EXCEPT ![r] = x]
  OBVIOUS
<1>. HIDE DEF x
<1>. QED
  BY <1>1, <1>2, RunSet

LEMMA NextTurn ==
  ASSUME run \in [Slot -> Run], NEW r \in Slot, NextAuction(r)
  PROVE  /\ run' \in [Slot -> Run] /\ Others(r)
         /\ run'[r].at \in {"idle", "check"}
         /\ run'[r].todo \subseteq run[r].todo /\ run'[r].told = {}
<1>1. run[r].todo \in SUBSET Auction
  BY DEF Run
<1>2. run[r].todo \ {run[r].auction} \in SUBSET Auction
  BY <1>1
<1>. QED
  BY <1>2, TurnsTo DEF NextAuction

\* A run passes an auction over, or begins its sending.
LEMMA PicksOrPasses ==
  ASSUME run \in [Slot -> Run], NEW r \in Slot, NEW a \in Auction, HasAuctionEmailBeenSent(r, a)
  PROVE  /\ run' \in [Slot -> Run] /\ Others(r)
         /\ run'[r].todo \subseteq run[r].todo /\ run'[r].told \in {{}, run[r].told}
         /\ \/ run'[r].at \in {"idle", "check"}
            \/ a \notin logged /\ UNCHANGED faults /\ run'[r].at = "auction" /\ run'[r].auction = a
<1>. DEFINE rest == run[r].todo \ {a}
            passed == IF rest = {} THEN Idle ELSE [run[r] EXCEPT !.todo = rest]
            picked == [run[r] EXCEPT !.auction = a, !.at = "auction"]
<1>1. run[r] \in Run /\ run[r].at = "check"
  BY DEF HasAuctionEmailBeenSent
<1>2. /\ passed \in Run /\ passed.at \in {"idle", "check"} /\ passed.todo \subseteq run[r].todo
      /\ picked \in Run /\ picked.at = "auction" /\ picked.auction = a
      /\ picked.todo = run[r].todo /\ picked.told = run[r].told
      /\ passed.told \in {{}, run[r].told}
  <2>1. rest \in SUBSET Auction /\ rest \subseteq run[r].todo
    BY <1>1 DEF Run
  <2>. HIDE DEF rest
  <2>. QED
    BY <1>1, <2>1 DEF Idle, Run, RunPlace
<1>3. \/ run' = [run EXCEPT ![r] = passed]
      \/ a \notin logged /\ UNCHANGED faults /\ run' = [run EXCEPT ![r] = picked]
  <2>1. [run EXCEPT ![r].auction = a, ![r].at = "auction"] = [run EXCEPT ![r] = picked]
    BY <1>1 DEF Run
  <2>. QED
    BY <2>1 DEF HasAuctionEmailBeenSent, NoFault
<1>. HIDE DEF rest, passed, picked
<1>. QED
  BY <1>2, <1>3, RunSet

\* A run finds the winner.
LEMMA FindsWinner ==
  ASSUME run \in [Slot -> Run], NEW r \in Slot, NEW w \in Bid,
         run' = [run EXCEPT ![r].winner = w, ![r].at = "winner"]
  PROVE  /\ run' \in [Slot -> Run] /\ Others(r)
         /\ run'[r].at = "winner" /\ run'[r].winner = w
         /\ run'[r].todo = run[r].todo /\ run'[r].auction = run[r].auction
         /\ run'[r].told = run[r].told
<1>. DEFINE x == [run[r] EXCEPT !.winner = w, !.at = "winner"]
<1>1. run[r] \in Run
  OBVIOUS
<1>2. /\ x \in Run /\ x.at = "winner" /\ x.winner = w
      /\ x.todo = run[r].todo /\ x.auction = run[r].auction /\ x.told = run[r].told
  BY <1>1 DEF Run, RunPlace
<1>3. run' = [run EXCEPT ![r] = x]
  BY <1>1 DEF Run
<1>. HIDE DEF x
<1>. QED
  BY <1>2, <1>3, RunSet

\* A run has its list.
LEMMA HasList ==
  ASSUME run \in [Slot -> Run], NEW r \in Slot, NEW n \in Nat,
         run' = [run EXCEPT ![r].rows = n, ![r].at = "mail"]
  PROVE  /\ run' \in [Slot -> Run] /\ Others(r)
         /\ run'[r].at = "mail" /\ run'[r].rows = n
         /\ run'[r].todo = run[r].todo /\ run'[r].auction = run[r].auction
         /\ run'[r].winner = run[r].winner /\ run'[r].told = run[r].told
<1>. DEFINE x == [run[r] EXCEPT !.rows = n, !.at = "mail"]
<1>1. run[r] \in Run
  OBVIOUS
<1>2. /\ x \in Run /\ x.at = "mail" /\ x.rows = n
      /\ x.todo = run[r].todo /\ x.auction = run[r].auction
      /\ x.winner = run[r].winner /\ x.told = run[r].told
  BY <1>1 DEF Run, RunPlace
<1>3. run' = [run EXCEPT ![r] = x]
  BY <1>1 DEF Run
<1>. HIDE DEF x
<1>. QED
  BY <1>2, <1>3, RunSet

\* A run remembers whom it has told.
LEMMA Remembers ==
  ASSUME run \in [Slot -> Run], NEW r \in Slot, NEW u \in User,
         run' = [run EXCEPT ![r].told = @ \cup {u}]
  PROVE  /\ run' \in [Slot -> Run] /\ Others(r)
         /\ run'[r].told = run[r].told \cup {u}
         /\ run'[r].at = run[r].at /\ run'[r].rows = run[r].rows
         /\ run'[r].todo = run[r].todo /\ run'[r].auction = run[r].auction
         /\ run'[r].winner = run[r].winner
<1>. DEFINE x == [run[r] EXCEPT !.told = @ \cup {u}]
<1>1. run[r] \in Run
  OBVIOUS
<1>2. /\ x \in Run /\ x.told = run[r].told \cup {u}
      /\ x.at = run[r].at /\ x.rows = run[r].rows
      /\ x.todo = run[r].todo /\ x.auction = run[r].auction
      /\ x.winner = run[r].winner
  BY <1>1 DEF Run
<1>3. run' = [run EXCEPT ![r] = x]
  OBVIOUS
<1>. HIDE DEF x
<1>. QED
  BY <1>2, <1>3, RunSet

-----------------------------------------------------------------------------
(* One mail.                                                                 *)

LEMMA FaultTyped ==
  ASSUME faults \in 0..MaxFaults, NoFault \/ Fault
  PROVE  faults' \in 0..MaxFaults /\ (faults' = 0 => faults = 0 /\ ~Fault)
<1>1. MaxFaults \in Nat
  BY SchedulerAssumption
<1>. QED
  BY <1>1 DEF NoFault, Fault

\* It counts for one user, one auction and one winner, and if nothing has
\* failed it has gone out.
LEMMA Mailed ==
  ASSUME TypeOK, NEW a \in Auction, NEW u \in User, NEW w \in User, SendEmail(a, u, w)
  PROVE  /\ mails' \in [Auction -> [User -> Nat]] /\ named' \in [Auction -> SUBSET User]
         /\ faults' \in 0..MaxFaults /\ (faults' = 0 => faults = 0)
         /\ \A c \in Auction, v \in User : c # a \/ v # u => mails'[c][v] = mails[c][v]
         /\ mails'[a][u] \in {mails[a][u], mails[a][u] + 1}
         /\ faults' = 0 => mails'[a][u] = mails[a][u] + 1
         /\ \A c \in Auction : named'[c] \subseteq named[c] \cup (IF c = a THEN {w} ELSE {})
<1>1. /\ mails \in [Auction -> [User -> Nat]] /\ named \in [Auction -> SUBSET User]
      /\ faults \in 0..MaxFaults
  BY DEF TypeOK
<1>2. faults' \in 0..MaxFaults /\ (faults' = 0 => faults = 0 /\ ~Fault)
  BY <1>1, FaultTyped DEF SendEmail
<1>3. CASE mails' = [mails EXCEPT ![a][u] = @ + 1] /\ named' = [named EXCEPT ![a] = @ \cup {w}]
  <2>1. mails' \in [Auction -> [User -> Nat]] /\ named' \in [Auction -> SUBSET User]
    BY <1>1, <1>3
  <2>2. \A c \in Auction, v \in User : c # a \/ v # u => mails'[c][v] = mails[c][v]
    BY <1>1, <1>3
  <2>3. mails'[a][u] = mails[a][u] + 1
    BY <1>1, <1>3
  <2>4. \A c \in Auction : named'[c] \subseteq named[c] \cup (IF c = a THEN {w} ELSE {})
    BY <1>1, <1>3
  <2>. QED
    BY <1>2, <2>1, <2>2, <2>3, <2>4
<1>4. CASE Fault /\ UNCHANGED <<mails, named>>
  BY <1>1, <1>2, <1>4
<1>. QED
  BY <1>3, <1>4 DEF SendEmail

\* The next bidder of a list is one who has had no mail from this sending.
LEMMA NextBidder ==
  ASSUME RunInv, NEW r \in Slot, run[r].at = "mail"
  PROVE  LET a == run[r].auction
             u == bids[a][NextListed(bids[a], Untold(r))].sender
         IN  /\ a \in Auction /\ bids[a] \in Seq(Bid) /\ run[r].winner.sender \in User
             /\ run[r].told \subseteq User
             /\ run[r].rows \in 1..Len(bids[a])
             /\ Untold(r) # {} =>
                  /\ u \in User /\ u \notin run[r].told /\ u \in participants(bids[a])
<1>. DEFINE a == run[r].auction
            u == bids[a][NextListed(bids[a], Untold(r))].sender
<1>1. a \in Auction /\ bids[a] \in Seq(Bid) /\ run[r].rows \in 1..Len(bids[a])
  BY DEF RunInv, RunOK, TypeOK, Sending
<1>2. run[r].winner.sender \in User
  BY DEF RunInv, RunOK, Bid
<1>3. run[r].told \subseteq User
  BY DEF RunInv, TypeOK
<1>4. ASSUME Untold(r) # {} PROVE u \in User /\ u \notin run[r].told /\ u \in participants(bids[a])
  <2>1. Untold(r) \subseteq DOMAIN bids[a]
    BY <1>1, RowsTyped DEF Untold
  <2>2. NextListed(bids[a], Untold(r)) \in Untold(r)
    BY <1>1, <1>4, <2>1, NextListedFacts
  <2>3. u \notin run[r].told
    BY <2>2 DEF Untold
  <2>. QED
    BY <1>1, <2>1, <2>2, <2>3, RowsTyped DEF participants
<1>. QED
  BY <1>1, <1>2, <1>3, <1>4

-----------------------------------------------------------------------------
(* Types.                                                                    *)

\* TypeOK but for the runs.
RestTyped ==
  /\ phase \in [Auction -> {"early", "open", "over"}]
  /\ status \in [Auction -> {"INACTIVE", "ACTIVE", "ENDED"}]
  /\ age \in [Auction -> 0..Window + 1]
  /\ bids \in [Auction -> Seq(Bid)]
  /\ logged \subseteq Auction
  /\ mails \in [Auction -> [User -> Nat]]
  /\ sendings \in [Auction -> Nat]
  /\ named \in [Auction -> SUBSET User]
  /\ faults \in 0..MaxFaults
  /\ late \subseteq Auction
  /\ again \in BOOLEAN

LEMMA RunInvParts ==
  RunInv <=> RestTyped /\ run \in [Slot -> Run] /\ \A r \in Slot : RunOK(r)
<1>1. ASSUME RestTyped, run \in [Slot -> Run], \A r \in Slot : RunOK(r) PROVE TypeOK
  <2>1. \A r \in Slot : run[r].at \in RunPlace /\ run[r].todo \subseteq Auction /\ run[r].told \subseteq User
    BY <1>1 DEF Run
  <2>. QED
    BY <1>1, <2>1 DEF TypeOK, RestTyped, RunOK, Sending
<1>2. TypeOK => RestTyped
  BY DEF TypeOK, RestTyped
<1>. QED
  BY <1>1, <1>2 DEF RunInv

RunsOK == run \in [Slot -> Run] /\ \A r \in Slot : RunOK(r)

LEMMA RunInvNext == RestTyped' /\ RunsOK' => RunInv'
<1>1. RestTyped /\ RunsOK => RunInv
  BY RunInvParts DEF RunsOK
<1>. QED
  BY <1>1, PTL

LEMMA InitTyped == Init => RunInv
<1>. SUFFICES ASSUME Init PROVE RunInv
  OBVIOUS
<1>1. run \in [Slot -> Run] /\ \A r \in Slot : run[r].at = "idle"
  BY IdleTyped DEF Init, Idle
<1>2. \A r \in Slot : RunOK(r)
  BY <1>1 DEF RunOK, Sending
<1>3. bids \in [Auction -> Seq(Bid)]
  BY EmptySeq DEF Init
<1>4. faults \in 0..MaxFaults
  BY SchedulerAssumption DEF Init
<1>5. RestTyped
  <2>1. /\ age \in [Auction -> 0..Window + 1]
        /\ mails \in [Auction -> [User -> Nat]] /\ sendings \in [Auction -> Nat]
    BY DEF Init, Window
  <2>2. /\ phase \in [Auction -> {"early", "open", "over"}]
        /\ status \in [Auction -> {"INACTIVE", "ACTIVE", "ENDED"}]
        /\ named \in [Auction -> SUBSET User]
    BY DEF Init
  <2>. QED
    BY <1>3, <1>4, <2>1, <2>2 DEF Init, RestTyped
<1>. QED
  BY <1>1, <1>2, <1>5, RunInvParts

LEMMA MarkTyped ==
  ASSUME RestTyped, NEW S \in SUBSET Auction, NEW new \in {"INACTIVE", "ACTIVE", "ENDED"}, Mark(S, new)
  PROVE  /\ status' \in [Auction -> {"INACTIVE", "ACTIVE", "ENDED"}]
         /\ age' \in [Auction -> 0..Window + 1]
         /\ \A a \in Auction : status'[a] = IF a \in S THEN new ELSE status[a]
  BY DEF RestTyped, Mark, Window

\* A bid that is stored comes after the ones that were there.
LEMMA InsertTyped ==
  ASSUME RestTyped, NEW a \in Auction, NEW b \in Bid, InsertBid(a, b)
  PROVE  /\ bids' \in [Auction -> Seq(Bid)]
         /\ \A c \in Auction \ {a} : bids'[c] = bids[c]
         /\ bids'[a] # <<>>
         /\ Len(bids[a]) \in Nat /\ Len(bids'[a]) = Len(bids[a]) + 1
         /\ \A i \in 1..Len(bids[a]) : bids'[a][i] = bids[a][i]
<1>. DEFINE x == Row(b)
<1>0. x \in Bid
  BY RowTyped DEF InsertBid
<1>1. bids \in [Auction -> Seq(Bid)] /\ bids' = [bids EXCEPT ![a] = Append(bids[a], x)]
  BY DEF RestTyped, InsertBid
<1>. HIDE DEF x
<1>2. bids[a] \in Seq(Bid) /\ Append(bids[a], x) \in Seq(Bid)
  BY <1>0, <1>1, AppendProperties
<1>3. bids' \in [Auction -> Seq(Bid)] /\ bids'[a] = Append(bids[a], x)
      /\ \A c \in Auction \ {a} : bids'[c] = bids[c]
  <2>. HIDE DEF Bid
  <2>. QED
    BY <1>1, <1>2
<1>4. bids'[a] # <<>> /\ Len(bids[a]) \in Nat /\ Len(bids'[a]) = Len(bids[a]) + 1
  BY <1>0, <1>2, <1>3, AppendProperties, LenProperties
<1>5. \A i \in 1..Len(bids[a]) : bids'[a][i] = bids[a][i]
  BY <1>0, <1>2, <1>3, AppendProperties
<1>. QED
  BY <1>3, <1>4, <1>5

LEMMA RunStepTyped == RunInv /\ [Next]_vars => RunInv'
<1>. SUFFICES ASSUME RunInv, [Next]_vars PROVE RunInv'
  OBVIOUS
<1>0. RestTyped /\ run \in [Slot -> Run] /\ (\A r \in Slot : RunOK(r)) /\ TypeOK
  BY RunInvParts DEF RunInv
\* A step of one run, which leaves the bids alone.
<1>1. ASSUME NEW r \in Slot, run' \in [Slot -> Run], Others(r), RunOK(r)', UNCHANGED bids, RestTyped'
      PROVE  RunInv'
  <2>1. \A s \in Slot : RunOK(s)'
    BY <1>0, <1>1 DEF RunOK, Others
  <2>. QED
    BY <1>1, <2>1, RunInvNext DEF RunsOK
\* What a statement that fails does to the count of failures.
<1>2. NoFault \/ Fault => faults' \in 0..MaxFaults
  BY <1>0, FaultTyped DEF RestTyped
\* A step that changes a run and the count of failures only.
<1>3. ASSUME NEW r \in Slot, run' \in [Slot -> Run], Others(r), RunOK(r)', NoFault \/ Fault,
             UNCHANGED <<auctionVars, logged, mailVars, ghostVars>>
      PROVE  RunInv'
  <2>1. RestTyped'
    BY <1>0, <1>2, <1>3 DEF RestTyped, auctionVars, mailVars, ghostVars
  <2>. QED
    BY <1>1, <1>3, <2>1 DEF auctionVars
<1>4. ASSUME NEW r \in Slot, Tick(r) PROVE RunInv'
  <2>1. run' \in [Slot -> Run] /\ Others(r) /\ run'[r].at = "activate"
    BY <1>0, <1>4, GoesOn DEF Tick, RunPlace
  <2>2. age' \in [Auction -> 0..Window + 1] /\ again' \in BOOLEAN
    BY <1>0, <1>4 DEF Tick, RestTyped, Window
  <2>3. RestTyped'
    BY <1>0, <1>4, <2>2 DEF Tick, RestTyped, mailVars
  <2>4. RunOK(r)'
    BY <2>1 DEF RunOK, Sending
  <2>. QED
    BY <1>1, <1>4, <2>1, <2>3, <2>4 DEF Tick
<1>5. ASSUME NEW r \in Slot, NEW place \in {"end", "fetch"}, Goes(r, place),
             UNCHANGED <<phase, bids, logged, mailVars, ghostVars>>, NoFault \/ Fault,
             \/ \E S \in SUBSET Auction : \E new \in {"ACTIVE", "ENDED"} : Mark(S, new)
             \/ UNCHANGED <<status, age>>
      PROVE  RunInv'
  <2>1. run' \in [Slot -> Run] /\ Others(r) /\ run'[r].at = place
    BY <1>0, <1>5, GoesOn DEF RunPlace
  <2>2. /\ status' \in [Auction -> {"INACTIVE", "ACTIVE", "ENDED"}]
        /\ age' \in [Auction -> 0..Window + 1]
    BY <1>0, <1>5, MarkTyped DEF RestTyped
  <2>3. RestTyped'
    BY <1>0, <1>2, <1>5, <2>2 DEF RestTyped, mailVars, ghostVars
  <2>. QED
    BY <1>1, <1>5, <2>1, <2>3 DEF RunOK, Sending
<1>6. ASSUME NEW r \in Slot, MarkAuctionsActive(r) \/ MarkAuctionsEnded(r) PROVE RunInv'
  BY <1>5, <1>6 DEF MarkAuctionsActive, MarkAuctionsEnded
<1>7. ASSUME NEW r \in Slot, GetRecentlyEndedAuctionIDs(r) PROVE RunInv'
  <2>1. CASE Fault /\ run' = [run EXCEPT ![r] = Idle]
    <3>1. run' \in [Slot -> Run] /\ Others(r) /\ run'[r].at = "idle"
      BY <1>0, <2>1, IdleTyped, RunSet DEF Idle
    <3>. QED
      BY <1>3, <1>7, <2>1, <3>1 DEF GetRecentlyEndedAuctionIDs, RunOK, Sending
  <2>2. CASE NoFault /\ \E ids \in SUBSET Auction :
               run' = [run EXCEPT ![r] = IF ids = {} THEN Idle ELSE [Idle EXCEPT !.at = "check", !.todo = ids]]
    <3>1. run' \in [Slot -> Run] /\ Others(r) /\ run'[r].at \in {"idle", "check"}
      BY <1>0, <2>2, TurnsTo
    <3>. QED
      BY <1>3, <1>7, <2>2, <3>1 DEF GetRecentlyEndedAuctionIDs, RunOK, Sending
  <2>. QED
    BY <1>7, <2>1, <2>2 DEF GetRecentlyEndedAuctionIDs
<1>8. ASSUME NEW r \in Slot, NEW a \in Auction, HasAuctionEmailBeenSent(r, a) PROVE RunInv'
  <2>1. run' \in [Slot -> Run] /\ Others(r) /\ RunOK(r)'
    BY <1>0, <1>8, PicksOrPasses DEF RunOK, Sending
  <2>. QED
    BY <1>3, <1>8, <2>1 DEF HasAuctionEmailBeenSent
\* A sending goes on without a winner, or the next auction's turn comes.
<1>9. ASSUME NEW r \in Slot, run[r].at \in Sending,
             NextAuction(r) \/ Goes(r, "highest") \/ Goes(r, "log"), UNCHANGED bids
      PROVE  run' \in [Slot -> Run] /\ Others(r) /\ RunOK(r)'
  BY <1>0, <1>9, GoesOn, NextTurn DEF RunOK, Sending, RunPlace
<1>10. ASSUME NEW r \in Slot, GetAuction(r) PROVE RunInv'
  BY <1>3, <1>9, <1>10 DEF GetAuction, Sending, auctionVars
<1>11. ASSUME NEW r \in Slot, GetHighestBid(r) PROVE RunInv'
  <2>. DEFINE a == run[r].auction
              w == GetHighestBidForAuction(bids[a])
  <2>1. a \in Auction /\ bids[a] \in Seq(Bid) /\ run[r].at \in Sending
    BY <1>0, <1>11 DEF GetHighestBid, RunOK, RestTyped, Sending
  <2>2. CASE NoFault /\ bids[a] # <<>> /\ run' = [run EXCEPT ![r].winner = w, ![r].at = "winner"]
    <3>1. w \in Bid
      BY <2>1, <2>2, RowsTyped, NextListedFacts DEF GetHighestBidForAuction
    <3>2. /\ run' \in [Slot -> Run] /\ Others(r) /\ run'[r].at = "winner"
          /\ run'[r].winner = w /\ run'[r].auction = a
      BY <1>0, <2>2, <3>1, FindsWinner
    <3>3. RunOK(r)'
      BY <1>11, <2>1, <2>2, <3>1, <3>2 DEF GetHighestBid, RunOK, auctionVars
    <3>. QED
      BY <1>3, <1>11, <2>2, <3>2, <3>3 DEF GetHighestBid
  <2>3. CASE Goes(r, "log")
    BY <1>3, <1>9, <1>11, <2>1, <2>3 DEF GetHighestBid, auctionVars
  <2>. QED
    BY <1>11, <2>2, <2>3 DEF GetHighestBid
<1>12. ASSUME NEW r \in Slot, GetWinner(r) PROVE RunInv'
  <2>1. CASE Goes(r, "bids")
    <3>1. /\ run' \in [Slot -> Run] /\ Others(r) /\ run'[r].at = "bids"
          /\ run'[r].winner = run[r].winner /\ run'[r].auction = run[r].auction
      BY <1>0, <2>1, GoesOn DEF RunPlace
    <3>2. RunOK(r)'
      BY <1>0, <1>12, <3>1 DEF GetWinner, RunOK, auctionVars, Sending
    <3>. QED
      BY <1>3, <1>12, <3>1, <3>2 DEF GetWinner
  <2>2. CASE NextAuction(r)
    BY <1>3, <1>9, <1>12, <2>2 DEF GetWinner, Sending, auctionVars
  <2>. QED
    BY <1>12, <2>1, <2>2 DEF GetWinner
<1>13. ASSUME NEW r \in Slot, GetBids(r) PROVE RunInv'
  <2>. DEFINE a == run[r].auction
  <2>1. a \in Auction /\ bids[a] \in Seq(Bid) /\ bids[a] # <<>> /\ run[r].winner \in Bid
    BY <1>0, <1>13 DEF GetBids, RunOK, RestTyped, Sending
  <2>2. Len(bids[a]) \in Nat /\ Len(bids[a]) \in 1..Len(bids[a])
    BY <2>1, RowsTyped
  <2>3. CASE NoFault /\ run' = [run EXCEPT ![r].rows = Len(bids[a]), ![r].at = "mail"]
                     /\ sendings' = [sendings EXCEPT ![a] = @ + 1]
    <3>1. /\ run' \in [Slot -> Run] /\ Others(r) /\ run'[r].at = "mail"
          /\ run'[r].rows = Len(bids[a]) /\ run'[r].auction = a /\ run'[r].winner = run[r].winner
      BY <1>0, <2>2, <2>3, HasList
    <3>2. RunOK(r)'
      BY <1>13, <2>1, <2>2, <3>1 DEF GetBids, RunOK, auctionVars
    <3>3. sendings' \in [Auction -> Nat]
      BY <1>0, <2>1, <2>3 DEF RestTyped
    <3>4. RestTyped'
      BY <1>0, <1>2, <1>13, <2>3, <3>3 DEF GetBids, RestTyped, auctionVars, ghostVars
    <3>. QED
      BY <1>1, <1>13, <3>1, <3>2, <3>4 DEF GetBids, auctionVars
  <2>4. CASE Fault /\ NextAuction(r) /\ UNCHANGED sendings
    BY <1>3, <1>9, <1>13, <2>4 DEF GetBids, Sending, auctionVars, mailVars
  <2>. QED
    BY <1>13, <2>3, <2>4 DEF GetBids
<1>14. ASSUME NEW r \in Slot, MailBidder(r) PROVE RunInv'
  <2>. DEFINE a == run[r].auction
              u == bids[a][NextListed(bids[a], Untold(r))].sender
              w == run[r].winner.sender
  <2>1. a \in Auction /\ u \in User /\ w \in User
    BY <1>14, NextBidder DEF MailBidder
  <2>2. SendEmail(a, u, w)
    BY <1>14 DEF MailBidder, sendWinnerEmail, sendParticipantEmail
  <2>3. RestTyped'
    BY <1>0, <1>14, <2>1, <2>2, Mailed DEF MailBidder, RestTyped, auctionVars, ghostVars
  <2>4. run' = [run EXCEPT ![r].told = @ \cup {u}]
    BY <1>14 DEF MailBidder
  <2>5. /\ run' \in [Slot -> Run] /\ Others(r)
        /\ run'[r].at = run[r].at /\ run'[r].rows = run[r].rows
        /\ run'[r].auction = run[r].auction /\ run'[r].winner = run[r].winner
    <3>. HIDE DEF u
    <3>. QED
      BY <1>0, <2>1, <2>4, Remembers
  <2>6. RunOK(r)'
    BY <1>0, <1>14, <2>5 DEF MailBidder, RunOK, auctionVars
  <2>. QED
    BY <1>1, <1>14, <2>3, <2>5, <2>6 DEF MailBidder, auctionVars
<1>15. ASSUME NEW r \in Slot, MailSeller(r) PROVE RunInv'
  <2>1. run[r].auction \in Auction /\ run[r].winner.sender \in User /\ Seller \in User
    BY <1>15, NextBidder, SchedulerAssumption DEF MailSeller
  <2>2. \/ UNCHANGED <<mails, named, faults>>
        \/ SendEmail(run[r].auction, Seller, run[r].winner.sender)
    BY <1>15 DEF MailSeller, sendSellerEmail
  <2>3. /\ mails' \in [Auction -> [User -> Nat]] /\ named' \in [Auction -> SUBSET User]
        /\ faults' \in 0..MaxFaults
    BY <1>0, <2>1, <2>2, Mailed DEF RestTyped
  <2>4. RestTyped'
    BY <1>0, <1>15, <2>3 DEF MailSeller, RestTyped, auctionVars, ghostVars
  <2>. QED
    BY <1>1, <1>9, <1>15, <2>4 DEF MailSeller, Sending, auctionVars
<1>16. ASSUME NEW r \in Slot, LogAuctionEmailSent(r) PROVE RunInv'
  <2>1. run[r].auction \in Auction /\ run[r].at \in Sending
    BY <1>0, <1>16 DEF LogAuctionEmailSent, RunOK, Sending
  <2>2. faults' \in 0..MaxFaults /\ logged' \subseteq Auction /\ again' \in BOOLEAN
    BY <1>0, <1>2, <1>16, <2>1 DEF LogAuctionEmailSent, RestTyped
  <2>3. RestTyped'
    BY <1>0, <1>16, <2>2 DEF LogAuctionEmailSent, RestTyped, auctionVars, mailVars
  <2>. QED
    BY <1>1, <1>9, <1>16, <2>1, <2>3 DEF LogAuctionEmailSent, auctionVars
<1>17. CASE Crash
  <2>1. run' \in [Slot -> Run] /\ \A r \in Slot : run'[r].at = "idle"
    BY <1>17, IdleTyped DEF Crash, Idle
  <2>2. \A r \in Slot : RunOK(r)'
    BY <2>1 DEF RunOK, Sending
  <2>3. RestTyped'
    BY <1>0, <1>2, <1>17 DEF Crash, RestTyped, auctionVars, mailVars
  <2>. QED
    BY <2>1, <2>2, <2>3, RunInvNext DEF RunsOK
\* Steps of the rest of the server.
<1>18. ASSUME NEW a \in Auction, TimePasses(a) \/ UpdateAuctionClientCount(a) PROVE RunInv'
  <2>1. phase' \in [Auction -> {"early", "open", "over"}]
    BY <1>0, <1>18 DEF TimePasses, UpdateAuctionClientCount, RestTyped
  <2>4. age' \in [Auction -> 0..Window + 1]
    <3>1. age \in [Auction -> 0..Window + 1] /\ 0 \in 0..Window + 1
      BY <1>0 DEF RestTyped, Window
    <3>2. age' = age \/ age' = [age EXCEPT ![a] = 0]
      BY <1>18 DEF TimePasses, UpdateAuctionClientCount
    <3>. QED
      BY <3>1, <3>2
  <2>2. RestTyped'
    BY <1>0, <1>18, <2>1, <2>4 DEF TimePasses, UpdateAuctionClientCount, RestTyped, mailVars, ghostVars
  <2>3. UNCHANGED <<run, bids>>
    BY <1>18 DEF TimePasses, UpdateAuctionClientCount
  <2>5. \A r \in Slot : RunOK(r)'
    BY <1>0, <2>3 DEF RunOK
  <2>6. run' \in [Slot -> Run]
    BY <1>0, <2>3
  <2>. QED
    BY <2>2, <2>5, <2>6, RunInvNext DEF RunsOK
<1>19. ASSUME NEW a \in Auction, NEW b \in Bid, InsertBid(a, b) PROVE RunInv'
  <2>1. /\ bids' \in [Auction -> Seq(Bid)] /\ bids'[a] # <<>>
        /\ \A c \in Auction \ {a} : bids'[c] = bids[c]
        /\ Len(bids[a]) \in Nat /\ Len(bids'[a]) = Len(bids[a]) + 1
    BY <1>0, <1>19, InsertTyped
  <2>2. late' \subseteq Auction
    BY <1>0, <1>19 DEF InsertBid, RestTyped
  <2>3. RestTyped'
    BY <1>0, <1>19, <2>1, <2>2 DEF InsertBid, RestTyped, mailVars
  <2>4. UNCHANGED run
    BY <1>19 DEF InsertBid
  <2>5. ASSUME NEW r \in Slot PROVE RunOK(r)'
    <3>1. CASE run[r].auction = a
      BY <1>0, <2>1, <2>4, <3>1 DEF RunOK
    <3>2. CASE run[r].auction # a
      BY <1>0, <2>1, <2>4, <3>2 DEF RunOK, Sending
    <3>. QED
      BY <3>1, <3>2
  <2>6. run' \in [Slot -> Run]
    BY <1>0, <2>4
  <2>. QED
    BY <2>3, <2>5, <2>6, RunInvNext DEF RunsOK
<1>20. CASE UNCHANGED vars
  <2>1. RestTyped'
    BY <1>0, <1>20 DEF RestTyped, vars, auctionVars, mailVars, ghostVars
  <2>2. run' \in [Slot -> Run] /\ \A r \in Slot : RunOK(r)'
    BY <1>0, <1>20 DEF RunOK, vars, auctionVars
  <2>. QED
    BY <2>1, <2>2, RunInvNext DEF RunsOK
<1>. QED
  BY <1>4, <1>6, <1>7, <1>8, <1>10, <1>11, <1>12, <1>13, <1>14, <1>15, <1>16, <1>17, <1>18, <1>19, <1>20
  DEF Next, RunStep, TableStep

LEMMA RunInvariant == Spec => []RunInv
<1>1. Init => RunInv
  BY InitTyped
<1>2. RunInv /\ [Next]_vars => RunInv'
  BY RunStepTyped
<1>. QED
  BY <1>1, <1>2, PTL DEF Spec

\* A run that is sending has an auction, a winner with a bid and a list that
\* the table still holds, whatever fails and whichever bids come in between
\* (scheduler.go, mail.go).
THEOREM TypeCorrect == Spec => []TypeOK
<1>1. RunInv => TypeOK
  BY DEF RunInv
<1>. QED
  BY <1>1, RunInvariant, PTL

-----------------------------------------------------------------------------
(* What each step of a run does to it.                                       *)

\* Before its list is known a run sends nothing; what it then finds has ended.
LEMMA RestingStep ==
  ASSUME RunInv, NEW r \in Slot,
         Tick(r) \/ MarkAuctionsActive(r) \/ MarkAuctionsEnded(r) \/ GetRecentlyEndedAuctionIDs(r)
  PROVE  /\ Others(r) /\ run'[r].at \notin Sending /\ run'[r].told \in {{}, run[r].told}
         /\ run'[r].todo \subseteq run[r].todo \cup {a \in Auction : status[a] = "ENDED"}
         /\ UNCHANGED <<bids, logged, mailVars, late>>
         /\ faults' = 0 => faults = 0
         /\ again' \in BOOLEAN /\ (again => again')
<1>0. run \in [Slot -> Run] /\ faults \in 0..MaxFaults /\ again \in BOOLEAN
  BY DEF RunInv, TypeOK
<1>1. CASE Tick(r)
  BY <1>0, <1>1, GoesOn DEF Tick, RunPlace, Sending, mailVars
<1>2. CASE MarkAuctionsActive(r) \/ MarkAuctionsEnded(r)
  <2>1. NoFault \/ Fault
    BY <1>2 DEF MarkAuctionsActive, MarkAuctionsEnded
  <2>2. Goes(r, "end") \/ Goes(r, "fetch")
    BY <1>2 DEF MarkAuctionsActive, MarkAuctionsEnded
  <2>3. /\ Others(r) /\ run'[r].at \notin Sending
        /\ run'[r].todo = run[r].todo /\ run'[r].told = run[r].told
    BY <1>0, <2>2, GoesOn DEF RunPlace, Sending
  <2>. QED
    BY <1>0, <1>2, <2>1, <2>3, FaultTyped DEF MarkAuctionsActive, MarkAuctionsEnded, ghostVars
<1>3. CASE GetRecentlyEndedAuctionIDs(r)
  <2>1. NoFault \/ Fault
    BY <1>3 DEF GetRecentlyEndedAuctionIDs
  <2>2. \E ids \in SUBSET {a \in Auction : status[a] = "ENDED"} :
          run' = [run EXCEPT ![r] = IF ids = {} THEN Idle ELSE [Idle EXCEPT !.at = "check", !.todo = ids]]
    <3>1. CASE run' = [run EXCEPT ![r] = Idle]
      <4>. WITNESS {} \in SUBSET {a \in Auction : status[a] = "ENDED"}
      <4>. QED
        BY <3>1
    <3>2. CASE run' # [run EXCEPT ![r] = Idle]
      BY <1>3, <3>2 DEF GetRecentlyEndedAuctionIDs
    <3>. QED
      BY <3>1, <3>2
  <2>3. PICK ids \in SUBSET {a \in Auction : status[a] = "ENDED"} :
          run' = [run EXCEPT ![r] = IF ids = {} THEN Idle ELSE [Idle EXCEPT !.at = "check", !.todo = ids]]
    BY <2>2
  <2>4. /\ Others(r) /\ run'[r].at \in {"idle", "check"}
        /\ run'[r].todo \subseteq ids /\ run'[r].told = {}
    BY <1>0, <2>3, TurnsTo
  <2>. QED
    BY <1>0, <1>3, <2>1, <2>4, FaultTyped DEF GetRecentlyEndedAuctionIDs, Sending, ghostVars, auctionVars
<1>. QED
  BY <1>1, <1>2, <1>3

\* A sending begins with an auction of the list that is not logged.
LEMMA CheckStep ==
  ASSUME RunInv, NEW r \in Slot, NEW a \in Auction, HasAuctionEmailBeenSent(r, a)
  PROVE  /\ Others(r) /\ run'[r].todo \subseteq run[r].todo /\ run'[r].told \in {{}, run[r].told}
         /\ run'[r].at \in Sending =>
              run'[r].at = "auction" /\ run'[r].auction = a /\ a \in run[r].todo /\ a \notin logged
         /\ UNCHANGED <<status, bids, logged, mailVars, late, again>>
         /\ faults' = 0 => faults = 0
<1>0. run \in [Slot -> Run] /\ faults \in 0..MaxFaults
  BY DEF RunInv, TypeOK
<1>1. NoFault \/ Fault
  BY DEF HasAuctionEmailBeenSent
<1>. QED
  BY <1>0, <1>1, PicksOrPasses, FaultTyped DEF HasAuctionEmailBeenSent, Sending, auctionVars, ghostVars

\* The auction, the highest bid and the winner are looked up; the run may turn
\* to another auction or have nothing to send.
LEMMA LookupStep ==
  ASSUME RunInv, NEW r \in Slot, GetAuction(r) \/ GetHighestBid(r) \/ GetWinner(r)
  PROVE  /\ Others(r) /\ run'[r].todo \subseteq run[r].todo /\ run'[r].told \in {{}, run[r].told}
         /\ run[r].auction \in Auction /\ bids[run[r].auction] \in Seq(Bid)
         /\ run[r].at \in {"auction", "highest", "winner"}
         /\ run'[r].at \in Sending => run'[r].auction = run[r].auction
         /\ run'[r].at \in {"idle", "check", "highest", "winner", "bids", "log"}
         /\ run'[r].at = "winner" => run'[r].winner = GetHighestBidForAuction(bids[run[r].auction])
         /\ run'[r].at \in {"winner", "bids"} => bids[run[r].auction] # <<>>
         /\ run'[r].at = "bids" => run[r].at = "winner" /\ run'[r].winner = run[r].winner
         /\ run'[r].at = "log" =>
              status[run[r].auction] # "ENDED" \/ bids[run[r].auction] = <<>> \/ Fault
         /\ UNCHANGED <<status, bids, logged, mailVars, late, again>>
         /\ faults' = 0 => faults = 0 /\ ~Fault
<1>. DEFINE a == run[r].auction
<1>0. run \in [Slot -> Run] /\ faults \in 0..MaxFaults
  BY DEF RunInv, TypeOK
<1>1. run[r].at \in {"auction", "highest", "winner"} /\ a \in Auction /\ bids[a] \in Seq(Bid)
  BY DEF GetAuction, GetHighestBid, GetWinner, RunInv, RunOK, TypeOK, Sending
<1>2. NoFault \/ Fault
  BY DEF GetAuction, GetHighestBid, GetWinner
<1>3. /\ faults' = 0 => faults = 0 /\ ~Fault
      /\ UNCHANGED <<status, bids, logged, mailVars, late, again>>
  BY <1>0, <1>2, FaultTyped DEF GetAuction, GetHighestBid, GetWinner, auctionVars, ghostVars
<1>4. CASE NextAuction(r)
  BY <1>0, <1>1, <1>3, <1>4, NextTurn DEF Sending
<1>5. CASE GetAuction(r) /\ (Goes(r, "highest") \/ (Goes(r, "log") /\ status[a] # "ENDED"))
  BY <1>0, <1>1, <1>3, <1>5, GoesOn DEF RunPlace
<1>6. CASE /\ bids[a] # <<>>
           /\ run' = [run EXCEPT ![r].winner = GetHighestBidForAuction(bids[a]), ![r].at = "winner"]
  <2>1. GetHighestBidForAuction(bids[a]) \in Bid
    BY <1>1, <1>6, RowsTyped, NextListedFacts DEF GetHighestBidForAuction
  <2>. QED
    BY <1>0, <1>1, <1>3, <1>6, <2>1, FindsWinner
<1>7. CASE Goes(r, "log") /\ (bids[a] = <<>> \/ Fault)
  BY <1>0, <1>1, <1>3, <1>7, GoesOn DEF RunPlace
<1>8. CASE run[r].at = "winner" /\ Goes(r, "bids")
  <2>1. bids[a] # <<>>
    BY <1>8 DEF RunInv, RunOK
  <2>. QED
    BY <1>0, <1>1, <1>3, <1>8, <2>1, GoesOn DEF RunPlace
<1>. QED
  BY <1>4, <1>5, <1>6, <1>7, <1>8 DEF GetAuction, GetHighestBid, GetWinner, GetAuctionByID

\* The list is read, and the mails begin.
LEMMA ListStep ==
  ASSUME RunInv, NEW r \in Slot, GetBids(r)
  PROVE  /\ Others(r) /\ run'[r].todo \subseteq run[r].todo
         /\ run[r].auction \in Auction /\ run[r].at = "bids"
         /\ \/ /\ run'[r].at = "mail" /\ run'[r].auction = run[r].auction
               /\ run'[r].winner = run[r].winner /\ run'[r].told = run[r].told
               /\ run'[r].rows = Len(bids[run[r].auction])
               /\ \A a \in Auction :
                    sendings'[a] = IF a = run[r].auction THEN sendings[a] + 1 ELSE sendings[a]
            \/ run'[r].at \in {"idle", "check"} /\ run'[r].told = {} /\ UNCHANGED sendings
         /\ UNCHANGED <<status, bids, logged, mails, named, late, again>>
         /\ faults' = 0 => faults = 0
<1>. DEFINE a == run[r].auction
<1>0. run \in [Slot -> Run] /\ faults \in 0..MaxFaults /\ sendings \in [Auction -> Nat]
  BY DEF RunInv, TypeOK
<1>1. run[r].at = "bids" /\ a \in Auction /\ bids[a] \in Seq(Bid)
  BY DEF GetBids, RunInv, RunOK, TypeOK, Sending
<1>2. NoFault \/ Fault
  BY DEF GetBids
<1>3. (faults' = 0 => faults = 0) /\ UNCHANGED <<status, bids, logged, mails, named, late, again>>
  BY <1>0, <1>2, FaultTyped DEF GetBids, auctionVars, ghostVars
<1>4. CASE NextAuction(r) /\ UNCHANGED sendings
  BY <1>0, <1>1, <1>3, <1>4, NextTurn
<1>5. CASE /\ run' = [run EXCEPT ![r].rows = Len(bids[a]), ![r].at = "mail"]
           /\ sendings' = [sendings EXCEPT ![a] = @ + 1]
  <2>1. Len(bids[a]) \in Nat
    BY <1>1, RowsTyped
  <2>2. \A c \in Auction : sendings'[c] = IF c = a THEN sendings[c] + 1 ELSE sendings[c]
    BY <1>0, <1>5
  <2>. QED
    BY <1>0, <1>1, <1>3, <1>5, <2>1, <2>2, HasList
<1>. QED
  BY <1>4, <1>5 DEF GetBids

\* One mail to one who has had none from this sending, and what is left alone.
MailTo(a, u, w) ==
  /\ a \in Auction /\ u \in User /\ w \in User
  /\ mails' \in [Auction -> [User -> Nat]]
  /\ \A c \in Auction, v \in User : c # a \/ v # u => mails'[c][v] = mails[c][v]
  /\ mails'[a][u] \in {mails[a][u], mails[a][u] + 1}
  /\ faults' = 0 => faults = 0 /\ mails'[a][u] = mails[a][u] + 1
  /\ \A c \in Auction : named'[c] \subseteq named[c] \cup (IF c = a THEN {w} ELSE {})

LEMMA BidderStep ==
  ASSUME RunInv, NEW r \in Slot, MailBidder(r)
  PROVE  /\ Others(r) /\ run'[r].todo \subseteq run[r].todo
         /\ run[r].auction \in Auction /\ run[r].at = "mail"
         /\ run'[r].at = "mail" /\ run'[r].auction = run[r].auction
         /\ run'[r].winner = run[r].winner /\ run'[r].rows = run[r].rows
         /\ \E u \in User :
              /\ u \in participants(bids[run[r].auction]) /\ u \notin run[r].told
              /\ run'[r].told = run[r].told \cup {u}
              /\ MailTo(run[r].auction, u, run[r].winner.sender)
         /\ UNCHANGED <<status, bids, logged, sendings, late, again>>
         /\ faults' = 0 => faults = 0
<1>. DEFINE a == run[r].auction
            u == bids[a][NextListed(bids[a], Untold(r))].sender
            w == run[r].winner.sender
<1>0. run \in [Slot -> Run] /\ TypeOK /\ run[r].at = "mail"
  BY DEF RunInv, MailBidder
<1>1. /\ a \in Auction /\ u \in User /\ w \in User /\ u \notin run[r].told
      /\ u \in participants(bids[a])
  BY <1>0, NextBidder DEF MailBidder
<1>2. SendEmail(a, u, w) /\ run' = [run EXCEPT ![r].told = @ \cup {u}]
  BY DEF MailBidder, sendWinnerEmail, sendParticipantEmail
<1>3. UNCHANGED <<status, bids, logged, sendings, late, again>>
  BY DEF MailBidder, auctionVars, ghostVars
<1>. HIDE DEF u, w
<1>4. MailTo(a, u, w) /\ (faults' = 0 => faults = 0)
  BY <1>0, <1>1, <1>2, Mailed DEF MailTo
<1>5. /\ Others(r) /\ run'[r].told = run[r].told \cup {u} /\ run'[r].at = run[r].at
      /\ run'[r].rows = run[r].rows /\ run'[r].todo = run[r].todo
      /\ run'[r].auction = run[r].auction /\ run'[r].winner = run[r].winner
  BY <1>0, <1>1, <1>2, Remembers
<1>. QED
  BY <1>0, <1>1, <1>3, <1>4, <1>5 DEF w

LEMMA SellerStep ==
  ASSUME RunInv, NEW r \in Slot, MailSeller(r)
  PROVE  /\ Others(r) /\ run'[r].todo \subseteq run[r].todo
         /\ run[r].auction \in Auction /\ run[r].at = "mail" /\ Untold(r) = {}
         /\ run'[r].at = "log" /\ run'[r].auction = run[r].auction
         /\ \/ Seller \in run[r].told /\ UNCHANGED <<mails, named>>
            \/ Seller \notin run[r].told /\ MailTo(run[r].auction, Seller, run[r].winner.sender)
         /\ UNCHANGED <<status, bids, logged, sendings, late, again>>
         /\ faults' = 0 => faults = 0
<1>. DEFINE a == run[r].auction
<1>0. run \in [Slot -> Run] /\ TypeOK /\ run[r].at = "mail"
  BY DEF RunInv, MailSeller
<1>1. a \in Auction /\ run[r].winner.sender \in User /\ Seller \in User
  BY <1>0, NextBidder, SchedulerAssumption
<1>2. /\ Others(r) /\ run'[r].at = "log" /\ run'[r].auction = a /\ run'[r].todo = run[r].todo
  BY <1>0, GoesOn DEF MailSeller, RunPlace
<1>3. UNCHANGED <<status, bids, logged, sendings, late, again>> /\ Untold(r) = {}
  BY DEF MailSeller, auctionVars, ghostVars
<1>4. CASE Seller \in run[r].told /\ UNCHANGED <<mails, named, faults>>
  BY <1>0, <1>1, <1>2, <1>3, <1>4
<1>5. CASE Seller \notin run[r].told /\ SendEmail(a, Seller, run[r].winner.sender)
  <2>1. MailTo(a, Seller, run[r].winner.sender) /\ (faults' = 0 => faults = 0)
    BY <1>0, <1>1, <1>5, Mailed DEF MailTo
  <2>. QED
    BY <1>0, <1>1, <1>2, <1>3, <1>5, <2>1
<1>. QED
  BY <1>4, <1>5 DEF MailSeller, sendSellerEmail

LEMMA LogStep ==
  ASSUME RunInv, NEW r \in Slot, LogAuctionEmailSent(r)
  PROVE  /\ Others(r) /\ run'[r].todo \subseteq run[r].todo
         /\ run[r].auction \in Auction /\ run[r].at = "log"
         /\ run'[r].at \in {"idle", "check"} /\ run'[r].told = {}
         /\ \/ logged' = logged \cup {run[r].auction} /\ UNCHANGED again
            \/ UNCHANGED logged /\ again'
         /\ UNCHANGED <<status, bids, mailVars, late>>
         /\ faults' = 0 => faults = 0
<1>0. run \in [Slot -> Run] /\ faults \in 0..MaxFaults
  BY DEF RunInv, TypeOK
<1>1. run[r].auction \in Auction /\ run[r].at = "log"
  BY DEF LogAuctionEmailSent, RunInv, RunOK, Sending
<1>2. NextAuction(r) /\ (NoFault \/ Fault)
  BY DEF LogAuctionEmailSent
<1>. QED
  BY <1>0, <1>1, <1>2, NextTurn, FaultTyped DEF LogAuctionEmailSent, auctionVars

-----------------------------------------------------------------------------
(* One mail per sending.                                                     *)

\* The sendings that may still mail u about a.
Owed(a, u) == {r \in Slot : run[r].at = "mail" /\ run[r].auction = a /\ u \notin run[r].told}

\* A sending is counted when it begins, and owes everybody one mail at most:
\* OneMailPerSending alone would not say that none is left to a user who has
\* had as many mails as there were sendings.
OwedInv ==
  \A a \in Auction, u \in User : mails[a][u] + Cardinality(Owed(a, u)) <= sendings[a]

LEMMA SlotsFinite ==
  ASSUME NEW S \in SUBSET Slot
  PROVE  IsFiniteSet(S) /\ Cardinality(S) \in Nat
<1>1. IsFiniteSet(Slot)
  BY FS_Interval, SchedulerAssumption DEF Slot
<1>. HIDE DEF Slot
<1>. QED
  BY <1>1, FS_Subset, FS_CardinalityType

\* Runs come and go one at a time.
LEMMA OneRunMoves ==
  ASSUME NEW S \in SUBSET Slot, NEW T \in SUBSET Slot, NEW r \in Slot, T \subseteq S \cup {r}
  PROVE  /\ Cardinality(S) \in Nat /\ Cardinality(T) \in Nat
         /\ Cardinality(T) <= Cardinality(S) + 1
         /\ T \subseteq S => Cardinality(T) <= Cardinality(S)
         /\ T \subseteq S \ {r} /\ r \in S => Cardinality(T) + 1 <= Cardinality(S)
<1>. HIDE DEF Slot
<1>1. IsFiniteSet(S) /\ Cardinality(S) \in Nat /\ Cardinality(T) \in Nat
  BY SlotsFinite
<1>2. IsFiniteSet(S \cup {r}) /\ Cardinality(S \cup {r}) \in {Cardinality(S), Cardinality(S) + 1}
  BY <1>1, FS_AddElement
<1>3. Cardinality(T) <= Cardinality(S \cup {r})
  BY <1>2, FS_Subset
<1>4. T \subseteq S => Cardinality(T) <= Cardinality(S)
  BY <1>1, FS_Subset
<1>5. ASSUME T \subseteq S \ {r}, r \in S PROVE Cardinality(T) + 1 <= Cardinality(S)
  <2>1. IsFiniteSet(S \ {r}) /\ Cardinality(S \ {r}) = Cardinality(S) - 1
    BY <1>1, <1>5, FS_RemoveElement
  <2>2. Cardinality(T) <= Cardinality(S \ {r})
    BY <1>5, <2>1, FS_Subset
  <2>. QED
    BY <1>1, <2>1, <2>2
<1>. QED
  BY <1>1, <1>2, <1>3, <1>4, <1>5

LEMMA OwedStep == RunInv /\ OwedInv /\ [Next]_vars => OwedInv'
<1>. SUFFICES ASSUME RunInv, OwedInv, [Next]_vars, NEW a \in Auction, NEW u \in User
              PROVE  mails'[a][u] + Cardinality(Owed(a, u)') <= sendings'[a]
  BY DEF OwedInv
<1>. DEFINE before == Owed(a, u)
            after == Owed(a, u)'
<1>0. /\ mails[a][u] \in Nat /\ sendings[a] \in Nat
      /\ before \in SUBSET Slot /\ after \in SUBSET Slot
      /\ Cardinality(before) \in Nat /\ Cardinality(after) \in Nat
      /\ mails[a][u] + Cardinality(before) <= sendings[a]
  <2>1. before \in SUBSET Slot /\ after \in SUBSET Slot
    BY DEF Owed
  <2>2. mails \in [Auction -> [User -> Nat]] /\ sendings \in [Auction -> Nat]
    BY DEF RunInv, TypeOK
  <2>3. mails[a][u] \in Nat /\ sendings[a] \in Nat
    BY <2>2
  <2>4. mails[a][u] + Cardinality(before) <= sendings[a]
    BY DEF OwedInv
  <2>. HIDE DEF before, after
  <2>. QED
    BY <2>1, <2>3, <2>4, SlotsFinite
\* No mail, no sending and nobody more who may be mailed.
<1>1. ASSUME UNCHANGED <<mails, sendings>>, after \subseteq before
      PROVE  mails'[a][u] + Cardinality(after) <= sendings'[a]
  <2>1. Cardinality(after) <= Cardinality(before)
    <3>1. IsFiniteSet(before)
      BY <1>0, SlotsFinite
    <3>. QED
      BY <1>1, <3>1, FS_Subset
  <2>. QED
    BY <1>0, <1>1, <2>1
<1>2. ASSUME NEW r \in Slot, Others(r), run'[r].at # "mail" PROVE after \subseteq before \ {r}
  BY <1>2 DEF Owed, Others
<1>3. ASSUME NEW r \in Slot, Others(r), run'[r].at # "mail", UNCHANGED <<mails, sendings>>
      PROVE  mails'[a][u] + Cardinality(after) <= sendings'[a]
  BY <1>1, <1>2, <1>3
<1>4. ASSUME NEW r \in Slot,
             Tick(r) \/ MarkAuctionsActive(r) \/ MarkAuctionsEnded(r) \/ GetRecentlyEndedAuctionIDs(r)
      PROVE  mails'[a][u] + Cardinality(after) <= sendings'[a]
  <2>1. Others(r) /\ run'[r].at # "mail" /\ UNCHANGED <<mails, sendings>>
    BY <1>4, RestingStep DEF Sending, mailVars
  <2>. QED
    BY <1>3, <2>1
<1>5. ASSUME NEW r \in Slot, NEW c \in Auction, HasAuctionEmailBeenSent(r, c)
      PROVE  mails'[a][u] + Cardinality(after) <= sendings'[a]
  <2>1. Others(r) /\ run'[r].at # "mail" /\ UNCHANGED <<mails, sendings>>
    BY <1>5, CheckStep DEF Sending, mailVars
  <2>. QED
    BY <1>3, <2>1
<1>6. ASSUME NEW r \in Slot, GetAuction(r) \/ GetHighestBid(r) \/ GetWinner(r)
      PROVE  mails'[a][u] + Cardinality(after) <= sendings'[a]
  <2>1. Others(r) /\ run'[r].at # "mail" /\ UNCHANGED <<mails, sendings>>
    BY <1>6, LookupStep DEF mailVars
  <2>. QED
    BY <1>3, <2>1
<1>7. ASSUME NEW r \in Slot, GetBids(r)
      PROVE  mails'[a][u] + Cardinality(after) <= sendings'[a]
  <2>1. UNCHANGED mails /\ Others(r) /\ run[r].auction \in Auction
    BY <1>7, ListStep
  <2>2. CASE run'[r].at # "mail"
    BY <1>3, <1>7, <2>1, <2>2, ListStep
  <2>3. CASE run'[r].at = "mail" /\ run[r].auction = a
    <3>1. after \subseteq before \cup {r}
      BY <2>1 DEF Owed, Others
    <3>2. Cardinality(after) <= Cardinality(before) + 1
      BY <1>0, <3>1, OneRunMoves
    <3>3. sendings'[a] = sendings[a] + 1
      BY <1>7, <2>3, ListStep
    <3>. QED
      BY <1>0, <2>1, <3>2, <3>3
  <2>4. CASE run'[r].at = "mail" /\ run[r].auction # a
    <3>1. sendings'[a] = sendings[a] /\ run'[r].auction # a
      BY <1>7, <2>4, ListStep
    <3>2. after \subseteq before
      BY <2>1, <3>1 DEF Owed, Others
    <3>3. Cardinality(after) <= Cardinality(before)
      BY <1>0, <3>2, OneRunMoves, <1>7
    <3>. QED
      BY <1>0, <2>1, <3>1, <3>3
  <2>. QED
    BY <2>2, <2>3, <2>4
\* Who gets a mail was owed one, and is not any more.
<1>8. ASSUME NEW r \in Slot, run[r].at = "mail", Others(r), UNCHANGED sendings, NEW v \in User, NEW w \in User,
             v \notin run[r].told, MailTo(run[r].auction, v, w),
             r \notin after \/ (run'[r].auction = run[r].auction /\ run'[r].told = run[r].told \cup {v})
      PROVE  mails'[a][u] + Cardinality(after) <= sendings'[a]
  <2>1. after \subseteq before
    BY <1>8 DEF Owed, Others
  <2>2. CASE a = run[r].auction /\ u = v
    <3>1. r \in before /\ r \notin after
      BY <1>8, <2>2 DEF Owed
    <3>2. Cardinality(after) + 1 <= Cardinality(before)
      BY <1>0, <2>1, <3>1, OneRunMoves
    <3>3. mails'[a][u] \in {mails[a][u], mails[a][u] + 1}
      BY <1>8, <2>2 DEF MailTo
    <3>. QED
      BY <1>0, <1>8, <3>2, <3>3
  <2>3. CASE ~(a = run[r].auction /\ u = v)
    <3>1. mails'[a][u] = mails[a][u]
      BY <1>8, <2>3 DEF MailTo
    <3>2. Cardinality(after) <= Cardinality(before)
      BY <1>0, <2>1, OneRunMoves, <1>8
    <3>. QED
      BY <1>0, <1>8, <3>1, <3>2
  <2>. QED
    BY <2>2, <2>3
<1>9. ASSUME NEW r \in Slot, MailBidder(r)
      PROVE  mails'[a][u] + Cardinality(after) <= sendings'[a]
  <2>1. PICK v \in User : /\ v \notin run[r].told /\ run'[r].told = run[r].told \cup {v}
                          /\ MailTo(run[r].auction, v, run[r].winner.sender)
    BY <1>9, BidderStep
  <2>2. /\ run[r].at = "mail" /\ Others(r) /\ UNCHANGED sendings
        /\ run'[r].auction = run[r].auction /\ run[r].winner.sender \in User
    BY <1>9, <2>1, BidderStep DEF MailTo
  <2>. QED
    BY <1>8, <2>1, <2>2
<1>10. ASSUME NEW r \in Slot, MailSeller(r)
       PROVE  mails'[a][u] + Cardinality(after) <= sendings'[a]
  <2>1. /\ run[r].at = "mail" /\ run'[r].at = "log" /\ Others(r) /\ UNCHANGED sendings
        /\ \/ UNCHANGED mails
           \/ Seller \notin run[r].told /\ MailTo(run[r].auction, Seller, run[r].winner.sender)
    BY <1>10, SellerStep
  <2>2. CASE UNCHANGED mails
    BY <1>3, <2>1, <2>2
  <2>3. CASE Seller \notin run[r].told /\ MailTo(run[r].auction, Seller, run[r].winner.sender)
    <3>1. r \notin after /\ Seller \in User /\ run[r].winner.sender \in User
      BY <2>1, <2>3 DEF Owed, MailTo
    <3>. QED
      BY <1>8, <2>1, <2>3, <3>1
  <2>. QED
    BY <2>1, <2>2, <2>3
<1>11. ASSUME NEW r \in Slot, LogAuctionEmailSent(r)
       PROVE  mails'[a][u] + Cardinality(after) <= sendings'[a]
  <2>1. Others(r) /\ run'[r].at # "mail" /\ UNCHANGED <<mails, sendings>>
    BY <1>11, LogStep DEF mailVars
  <2>. QED
    BY <1>3, <2>1
<1>12. CASE Crash
  <2>1. after \subseteq before /\ UNCHANGED <<mails, sendings>>
    BY <1>12 DEF Crash, Owed, Idle, mailVars
  <2>. QED
    BY <1>1, <2>1
<1>13. CASE (\E c \in Auction : TableStep(c)) \/ UNCHANGED vars
  <2>1. UNCHANGED <<run, mails, sendings>>
    BY <1>13 DEF TableStep, TimePasses, UpdateAuctionClientCount, InsertBid, vars, mailVars
  <2>2. after \subseteq before
    BY <2>1 DEF Owed
  <2>. QED
    BY <1>1, <2>1, <2>2
<1>. QED
  BY <1>4, <1>5, <1>6, <1>7, <1>9, <1>10, <1>11, <1>12, <1>13 DEF Next, RunStep

\* Nobody gets two mails from one sending, whether he bid several times, won,
\* or is the seller and bid himself (mail.go: bidderMap).
THEOREM OneMailCorrect == Spec => []OneMailPerSending
<1>1. Init => OwedInv
  <2>. SUFFICES ASSUME Init, NEW a \in Auction, NEW u \in User
                PROVE  mails[a][u] + Cardinality(Owed(a, u)) <= sendings[a]
    BY DEF OwedInv
  <2>1. Owed(a, u) = {} /\ mails[a][u] = 0 /\ sendings[a] = 0
    BY DEF Init, Idle, Owed
  <2>. QED
    BY <2>1, FS_EmptySet
<1>2. RunInv /\ OwedInv => OneMailPerSending
  <2>. SUFFICES ASSUME RunInv, OwedInv, NEW a \in Auction, NEW u \in User
                PROVE  mails[a][u] <= sendings[a]
    BY DEF OneMailPerSending
  <2>1. mails \in [Auction -> [User -> Nat]] /\ sendings \in [Auction -> Nat]
    BY DEF RunInv, TypeOK
  <2>2. mails[a][u] \in Nat /\ sendings[a] \in Nat
    BY <2>1
  <2>3. Owed(a, u) \in SUBSET Slot
    BY DEF Owed
  <2>4. Cardinality(Owed(a, u)) \in Nat
    BY <2>3, SlotsFinite
  <2>. QED
    BY <2>2, <2>4 DEF OwedInv
<1>. QED
  BY <1>1, <1>2, RunInvariant, OwedStep, PTL DEF Spec

-----------------------------------------------------------------------------
(* One mail per auction, as long as nothing is disturbed.                    *)

OneRun == \A r, s \in Slot : run[r].at # "idle" /\ run[s].at # "idle" => r = s

\* MailedOnce is not inductive: it does not say who is still to be mailed.
\* Undisturbed, the one run there is sends about an auction nobody has logged,
\* whoever was mailed about it was mailed in this very sending, and the sending
\* remembers him.
OnceInv ==
  ~again =>
    /\ OneRun
    /\ \A r \in Slot : run[r].at \in Sending => run[r].auction \notin logged
    /\ \A a \in Auction, u \in User :
         mails[a][u] # 0 =>
           a \in logged \/ \E r \in Slot : run[r].at \in {"mail", "log"} /\ run[r].auction = a
    /\ \A r \in Slot, u \in User :
         run[r].at = "mail" /\ mails[run[r].auction][u] # 0 => u \in run[r].told
    /\ MailedOnce

LEMMA OnceStep == RunInv /\ OnceInv /\ [Next]_vars => OnceInv'
<1>. SUFFICES ASSUME RunInv, OnceInv, [Next]_vars, ~again' PROVE OnceInv'
  BY DEF OnceInv
<1>0. mails \in [Auction -> [User -> Nat]]
  BY DEF RunInv, TypeOK
\* A step of the only run there is.
<1>1. ASSUME NEW r \in Slot, Others(r), run[r].at # "idle" \/ \A s \in Slot : run[s].at = "idle",
             ~again,
             run'[r].at \in Sending => run'[r].auction \notin logged',
             \A a \in Auction, u \in User :
               mails'[a][u] # 0 => a \in logged' \/ (run'[r].at \in {"mail", "log"} /\ run'[r].auction = a),
             \A u \in User :
               run'[r].at = "mail" /\ mails'[run'[r].auction][u] # 0 => u \in run'[r].told,
             \A a \in Auction, u \in User : mails'[a][u] <= 1
      PROVE  OnceInv'
  <2>1. \A s \in Slot \ {r} : run[s].at = "idle" /\ run'[s].at = "idle"
    BY <1>1 DEF OnceInv, OneRun, Others
  <2>2. OneRun'
    BY <2>1 DEF OneRun
  <2>3. \A s \in Slot : run'[s].at \in Sending => run'[s].auction \notin logged'
    BY <1>1, <2>1 DEF Sending
  <2>4. \A s \in Slot, u \in User :
          run'[s].at = "mail" /\ mails'[run'[s].auction][u] # 0 => u \in run'[s].told
    BY <1>1, <2>1
  <2>. QED
    BY <1>1, <2>2, <2>3, <2>4 DEF OnceInv, MailedOnce
\* What the invariant says while run r is not idle.
<1>2. ASSUME NEW r \in Slot, run[r].at # "idle" \/ \A s \in Slot : run[s].at = "idle", ~again
      PROVE  /\ \A a \in Auction, u \in User :
                  mails[a][u] # 0 => a \in logged \/ (run[r].at \in {"mail", "log"} /\ run[r].auction = a)
             /\ \A a \in Auction, u \in User : mails[a][u] <= 1
             /\ run[r].at \in Sending => run[r].auction \notin logged
             /\ \A u \in User : run[r].at = "mail" /\ mails[run[r].auction][u] # 0 => u \in run[r].told
  <2>1. \A s \in Slot \ {r} : run[s].at = "idle"
    BY <1>2 DEF OnceInv, OneRun
  <2>. QED
    BY <1>2, <2>1 DEF OnceInv, MailedOnce
<1>3. ASSUME NEW r \in Slot,
             Tick(r) \/ MarkAuctionsActive(r) \/ MarkAuctionsEnded(r) \/ GetRecentlyEndedAuctionIDs(r)
      PROVE  OnceInv'
  <2>1. ~again /\ (run[r].at # "idle" \/ \A s \in Slot : run[s].at = "idle")
        /\ run[r].at \notin Sending
    <3>1. CASE Tick(r)
      <4>1. ~again /\ \A s \in Slot : run[s].at = "idle"
        BY <3>1, Zenon DEF Tick
      <4>. QED
        BY <3>1, <4>1 DEF Tick, Sending
    <3>2. CASE ~Tick(r)
      <4>1. ~again
        BY <1>3, RestingStep
      <4>. QED
        BY <1>3, <3>2, <4>1 DEF MarkAuctionsActive, MarkAuctionsEnded, GetRecentlyEndedAuctionIDs, Sending
    <3>. QED
      BY <3>1, <3>2
  <2>2. Others(r) /\ run'[r].at \notin Sending /\ UNCHANGED <<logged, mails>>
    BY <1>3, RestingStep DEF mailVars
  <2>. QED
    BY <1>1, <1>2, <2>1, <2>2 DEF Sending
<1>4. ASSUME NEW r \in Slot, NEW a \in Auction, HasAuctionEmailBeenSent(r, a) PROVE OnceInv'
  <2>1. ~again /\ run[r].at = "check"
    BY <1>4, CheckStep DEF HasAuctionEmailBeenSent
  <2>2. /\ Others(r) /\ UNCHANGED <<logged, mails>>
        /\ run'[r].at \in Sending => run'[r].at = "auction" /\ run'[r].auction \notin logged
    BY <1>4, CheckStep DEF mailVars
  <2>. QED
    BY <1>1, <1>2, <2>1, <2>2 DEF Sending
<1>5. ASSUME NEW r \in Slot, GetAuction(r) \/ GetHighestBid(r) \/ GetWinner(r) PROVE OnceInv'
  <2>1. ~again /\ run[r].at \in {"auction", "highest", "winner"}
    BY <1>5, LookupStep
  <2>2. /\ Others(r) /\ UNCHANGED <<logged, mails>> /\ run'[r].at # "mail"
        /\ run'[r].at \in Sending => run'[r].auction = run[r].auction
    BY <1>5, LookupStep DEF mailVars
  <2>. QED
    BY <1>1, <1>2, <2>1, <2>2 DEF Sending
<1>6. ASSUME NEW r \in Slot, GetBids(r) PROVE OnceInv'
  <2>1. ~again /\ run[r].at = "bids" /\ run[r].auction \in Auction
    BY <1>6, ListStep
  <2>2. /\ Others(r) /\ UNCHANGED <<logged, mails>>
        /\ run'[r].at \in Sending => run'[r].at = "mail" /\ run'[r].auction = run[r].auction
    BY <1>6, ListStep DEF Sending
  <2>3. \A u \in User : mails[run[r].auction][u] = 0
    BY <1>2, <2>1 DEF Sending
  <2>. QED
    BY <1>1, <1>2, <2>1, <2>2, <2>3 DEF Sending
\* One mail of the run.
<1>7. ASSUME NEW r \in Slot, Others(r), run[r].at = "mail", ~again, UNCHANGED logged,
             NEW v \in User, NEW w \in User, v \notin run[r].told, MailTo(run[r].auction, v, w),
             run'[r].auction = run[r].auction,
             run'[r].at = "log" \/ (run'[r].at = "mail" /\ run'[r].told = run[r].told \cup {v})
      PROVE  OnceInv'
  <2>. DEFINE a == run[r].auction
  <2>1. /\ \A c \in Auction, u \in User : c # a \/ u # v => mails'[c][u] = mails[c][u]
        /\ mails'[a][v] \in {mails[a][v], mails[a][v] + 1} /\ a \in Auction
    BY <1>7 DEF MailTo
  <2>2. mails[a][v] = 0 /\ a \notin logged
    BY <1>2, <1>7, <2>1 DEF Sending
  <2>3. \A c \in Auction, u \in User : mails'[c][u] <= 1
    BY <1>2, <1>7, <2>1, <2>2
  <2>4. \A c \in Auction, u \in User :
          mails'[c][u] # 0 => c \in logged' \/ (run'[r].at \in {"mail", "log"} /\ run'[r].auction = c)
    BY <1>2, <1>7, <2>1
  <2>5. \A u \in User : run'[r].at = "mail" /\ mails'[run'[r].auction][u] # 0 => u \in run'[r].told
    BY <1>2, <1>7, <2>1
  <2>. QED
    BY <1>1, <1>7, <2>2, <2>3, <2>4, <2>5
<1>8. ASSUME NEW r \in Slot, MailBidder(r) PROVE OnceInv'
  <2>1. PICK v \in User : /\ v \notin run[r].told /\ run'[r].told = run[r].told \cup {v}
                          /\ MailTo(run[r].auction, v, run[r].winner.sender)
    BY <1>8, BidderStep
  <2>2. /\ run[r].at = "mail" /\ run'[r].at = "mail" /\ Others(r) /\ UNCHANGED logged /\ ~again
        /\ run'[r].auction = run[r].auction /\ run[r].winner.sender \in User
    BY <1>8, <2>1, BidderStep DEF MailTo
  <2>. QED
    BY <1>7, <2>1, <2>2
<1>9. ASSUME NEW r \in Slot, MailSeller(r) PROVE OnceInv'
  <2>1. /\ run[r].at = "mail" /\ run'[r].at = "log" /\ Others(r) /\ UNCHANGED logged /\ ~again
        /\ run'[r].auction = run[r].auction /\ run[r].auction \in Auction
        /\ \/ UNCHANGED mails
           \/ Seller \notin run[r].told /\ MailTo(run[r].auction, Seller, run[r].winner.sender)
    BY <1>9, SellerStep
  <2>2. CASE UNCHANGED mails
    BY <1>1, <1>2, <2>1, <2>2 DEF Sending
  <2>3. CASE Seller \notin run[r].told /\ MailTo(run[r].auction, Seller, run[r].winner.sender)
    <3>1. Seller \in User /\ run[r].winner.sender \in User
      BY <2>3 DEF MailTo
    <3>. QED
      BY <1>7, <2>1, <2>3, <3>1
  <2>. QED
    BY <2>1, <2>2, <2>3
<1>10. ASSUME NEW r \in Slot, LogAuctionEmailSent(r) PROVE OnceInv'
  <2>1. /\ Others(r) /\ run[r].at = "log" /\ run'[r].at \in {"idle", "check"} /\ UNCHANGED mails
        /\ ~again /\ logged' = logged \cup {run[r].auction}
    BY <1>10, LogStep DEF mailVars
  <2>. QED
    BY <1>1, <1>2, <2>1 DEF Sending
<1>11. CASE Crash
  BY <1>11 DEF Crash
<1>12. CASE (\E c \in Auction : TableStep(c)) \/ UNCHANGED vars
  <2>1. UNCHANGED <<run, mails, logged, again>>
    BY <1>12 DEF TableStep, TimePasses, UpdateAuctionClientCount, InsertBid, vars, mailVars, ghostVars
  <2>. QED
    BY <2>1 DEF OnceInv, OneRun, MailedOnce
<1>. QED
  BY <1>3, <1>4, <1>5, <1>6, <1>8, <1>9, <1>10, <1>11, <1>12 DEF Next, RunStep

\* Nobody is mailed twice about an auction unless two runs overlap, the process
\* ends or the log cannot be written: the later updates that bring an auction
\* back into the window, and sendings that failed before the first mail, do no
\* harm (scheduler.go: the log, and its second look at it).
THEOREM MailedOnceCorrect == Spec => []MailedOnceUndisturbed
<1>1. Init => OnceInv
  <2>. SUFFICES ASSUME Init PROVE OnceInv
    OBVIOUS
  <2>1. /\ \A r \in Slot : run[r].at = "idle"
        /\ \A a \in Auction, u \in User : mails[a][u] = 0
    BY DEF Init, Idle
  <2>. QED
    BY <2>1 DEF OnceInv, OneRun, Sending, MailedOnce
<1>2. OnceInv => MailedOnceUndisturbed
  BY DEF OnceInv, MailedOnceUndisturbed
<1>. QED
  BY <1>1, <1>2, RunInvariant, OnceStep, PTL DEF Spec

-----------------------------------------------------------------------------
(* What is sent is about auctions that have ended.                           *)

EndedInv ==
  /\ \A r \in Slot : /\ \A a \in run[r].todo : status[a] = "ENDED"
                     /\ run[r].at \in Sending => status[run[r].auction] = "ENDED"
  /\ \A a \in logged : status[a] = "ENDED"
  /\ \A a \in Auction : named[a] # {} => status[a] = "ENDED"

\* ENDED is final.
LEMMA EndedStays ==
  ASSUME RunInv, [Next]_vars, NEW a \in Auction, status[a] = "ENDED"
  PROVE  status'[a] = "ENDED"
<1>0. RestTyped
  BY RunInvParts
<1>1. ASSUME NEW r \in Slot, MarkAuctionsActive(r) \/ MarkAuctionsEnded(r) PROVE status'[a] = "ENDED"
  <2>1. CASE UNCHANGED status
    BY <2>1
  <2>2. CASE Mark({c \in Auction : status[c] = "INACTIVE" /\ phase[c] = "open"}, "ACTIVE")
    BY <2>2 DEF Mark
  <2>3. CASE Mark({c \in Auction : status[c] = "ACTIVE" /\ phase[c] = "over"}, "ENDED")
    BY <2>3 DEF Mark
  <2>. QED
    BY <1>1, <2>1, <2>2, <2>3 DEF MarkAuctionsActive, MarkAuctionsEnded
<1>2. ASSUME NEW r \in Slot,
             \/ Tick(r) \/ GetRecentlyEndedAuctionIDs(r) \/ \E c \in Auction : HasAuctionEmailBeenSent(r, c)
             \/ GetAuction(r) \/ GetHighestBid(r) \/ GetWinner(r) \/ GetBids(r) \/ MailBidder(r)
             \/ MailSeller(r) \/ LogAuctionEmailSent(r)
      PROVE  UNCHANGED status
  BY <1>2 DEF Tick, GetRecentlyEndedAuctionIDs, HasAuctionEmailBeenSent, GetAuction, GetHighestBid, GetWinner,
     GetBids, MailBidder, MailSeller, LogAuctionEmailSent, auctionVars
<1>3. ASSUME Crash \/ (\E c \in Auction : TableStep(c)) \/ UNCHANGED vars PROVE UNCHANGED status
  BY <1>3 DEF Crash, TableStep, TimePasses, UpdateAuctionClientCount, InsertBid, vars, auctionVars
<1>. QED
  BY <1>1, <1>2, <1>3 DEF Next, RunStep

LEMMA EndedStep == RunInv /\ EndedInv /\ [Next]_vars => EndedInv'
<1>. SUFFICES ASSUME RunInv, EndedInv, [Next]_vars PROVE EndedInv'
  OBVIOUS
<1>0. /\ \A a \in Auction : status[a] = "ENDED" => status'[a] = "ENDED"
      /\ \A r \in Slot : run[r].todo \subseteq Auction
      /\ \A r \in Slot : run[r].at \in Sending => run[r].auction \in Auction
      /\ logged \subseteq Auction
  BY EndedStays DEF RunInv, RunOK, TypeOK
\* A step of a run that takes on nothing but what has ended.
<1>1. ASSUME NEW r \in Slot, Others(r),
             \A a \in run'[r].todo : a \in Auction /\ status[a] = "ENDED",
             run'[r].at \in Sending => run'[r].auction \in Auction /\ status[run'[r].auction] = "ENDED",
             \A a \in logged' : a \in logged \/ (a \in Auction /\ status[a] = "ENDED"),
             \A a \in Auction : named'[a] # {} => named[a] # {} \/ status[a] = "ENDED"
      PROVE  EndedInv'
  <2>1. \A s \in Slot : /\ \A a \in run'[s].todo : status'[a] = "ENDED"
                        /\ run'[s].at \in Sending => status'[run'[s].auction] = "ENDED"
    <3>. SUFFICES ASSUME NEW s \in Slot
                  PROVE  /\ \A a \in run'[s].todo : status'[a] = "ENDED"
                         /\ run'[s].at \in Sending => status'[run'[s].auction] = "ENDED"
      OBVIOUS
    <3>1. CASE s = r
      BY <1>0, <1>1, <3>1
    <3>2. CASE s # r
      BY <1>0, <1>1, <3>2 DEF EndedInv, Others
    <3>. QED
      BY <3>1, <3>2
  <2>2. \A a \in logged' : status'[a] = "ENDED"
    BY <1>0, <1>1 DEF EndedInv
  <2>3. \A a \in Auction : named'[a] # {} => status'[a] = "ENDED"
    BY <1>0, <1>1 DEF EndedInv
  <2>. QED
    BY <2>1, <2>2, <2>3 DEF EndedInv
<1>2. ASSUME NEW r \in Slot
      PROVE  /\ \A a \in run[r].todo : a \in Auction /\ status[a] = "ENDED"
             /\ run[r].at \in Sending => run[r].auction \in Auction /\ status[run[r].auction] = "ENDED"
  BY <1>0 DEF EndedInv
<1>3. ASSUME NEW r \in Slot,
             Tick(r) \/ MarkAuctionsActive(r) \/ MarkAuctionsEnded(r) \/ GetRecentlyEndedAuctionIDs(r)
      PROVE  EndedInv'
  <2>1. /\ Others(r) /\ run'[r].at \notin Sending
        /\ run'[r].todo \subseteq run[r].todo \cup {a \in Auction : status[a] = "ENDED"}
        /\ UNCHANGED <<logged, named>>
    BY <1>3, RestingStep DEF mailVars
  <2>. QED
    BY <1>1, <1>2, <2>1
<1>4. ASSUME NEW r \in Slot, NEW c \in Auction, HasAuctionEmailBeenSent(r, c) PROVE EndedInv'
  <2>1. /\ Others(r) /\ run'[r].todo \subseteq run[r].todo /\ UNCHANGED <<logged, named>>
        /\ run'[r].at \in Sending => run'[r].auction = c /\ c \in run[r].todo
    BY <1>4, CheckStep DEF mailVars
  <2>. QED
    BY <1>1, <1>2, <2>1
<1>5. ASSUME NEW r \in Slot, GetAuction(r) \/ GetHighestBid(r) \/ GetWinner(r) PROVE EndedInv'
  <2>1. /\ Others(r) /\ run'[r].todo \subseteq run[r].todo /\ UNCHANGED <<logged, named>>
        /\ run'[r].at \in Sending => run'[r].auction = run[r].auction
        /\ run[r].at \in Sending
    BY <1>5, LookupStep DEF mailVars, Sending
  <2>. QED
    BY <1>1, <1>2, <2>1
<1>6. ASSUME NEW r \in Slot, GetBids(r) PROVE EndedInv'
  <2>1. /\ Others(r) /\ run'[r].todo \subseteq run[r].todo /\ UNCHANGED <<logged, named>>
        /\ run'[r].at \in Sending => run'[r].auction = run[r].auction
        /\ run[r].at \in Sending
    BY <1>6, ListStep DEF Sending
  <2>. QED
    BY <1>1, <1>2, <2>1
<1>7. ASSUME NEW r \in Slot, MailBidder(r) \/ MailSeller(r) PROVE EndedInv'
  <2>1. /\ Others(r) /\ run'[r].todo \subseteq run[r].todo /\ UNCHANGED logged
        /\ run'[r].auction = run[r].auction /\ run[r].at \in Sending
    BY <1>7, BidderStep, SellerStep DEF Sending
  <2>2. \A a \in Auction : a # run[r].auction => named'[a] \subseteq named[a]
    BY <1>7, BidderStep, SellerStep DEF MailTo
  <2>3. \A a \in Auction : named'[a] # {} => named[a] # {} \/ status[a] = "ENDED"
    BY <1>2, <2>1, <2>2
  <2>. QED
    BY <1>1, <1>2, <2>1, <2>3
<1>8. ASSUME NEW r \in Slot, LogAuctionEmailSent(r) PROVE EndedInv'
  <2>1. /\ Others(r) /\ run'[r].todo \subseteq run[r].todo /\ UNCHANGED named
        /\ run'[r].at \notin Sending /\ run[r].at \in Sending
        /\ logged' \subseteq logged \cup {run[r].auction}
    BY <1>8, LogStep DEF Sending, mailVars
  <2>. QED
    BY <1>1, <1>2, <2>1
<1>9. CASE Crash
  <2>1. /\ \A r \in Slot : run'[r].at \notin Sending /\ run'[r].todo = {}
        /\ UNCHANGED <<status, logged, named>>
    BY <1>9 DEF Crash, Idle, Sending, auctionVars, mailVars
  <2>. QED
    BY <2>1 DEF EndedInv
<1>10. CASE (\E c \in Auction : TableStep(c)) \/ UNCHANGED vars
  <2>1. UNCHANGED <<run, status, logged, named>>
    BY <1>10 DEF TableStep, TimePasses, UpdateAuctionClientCount, InsertBid, vars, auctionVars, mailVars
  <2>. QED
    BY <2>1 DEF EndedInv
<1>. QED
  BY <1>3, <1>4, <1>5, <1>6, <1>7, <1>8, <1>9, <1>10 DEF Next, RunStep

LEMMA EndedInvariant == Spec => []EndedInv
<1>1. Init => EndedInv
  BY DEF Init, Idle, EndedInv, Sending
<1>. QED
  BY <1>1, RunInvariant, EndedStep, PTL DEF Spec

-----------------------------------------------------------------------------
(* Logged means mailed.                                                      *)

AllMailed(a) ==
  bids[a] # <<>> => \A u \in participants(bids[a]) \cup {Seller} : mails[a][u] >= 1

\* LoggedMeansMailed needs to know what a run that is about to write the log has
\* done: its list is the whole table, whom it remembers was mailed, and nobody
\* is left out when it comes to the log.
MailedInv ==
  /\ \A r \in Slot : run[r].at \notin {"mail", "log"} => run[r].told = {}
  /\ \A r \in Slot : run[r].at = "mail" /\ run[r].auction \notin late =>
                       run[r].rows = Len(bids[run[r].auction])
  /\ faults = 0 =>
       /\ \A r \in Slot :
            /\ run[r].at = "mail" => \A u \in run[r].told : mails[run[r].auction][u] >= 1
            /\ run[r].at = "log" /\ run[r].auction \notin late => AllMailed(run[r].auction)
       /\ \A a \in logged \ late : AllMailed(a)

LEMMA MailedStep == RunInv /\ EndedInv /\ MailedInv /\ [Next]_vars => MailedInv'
<1>. SUFFICES ASSUME RunInv, EndedInv, MailedInv, [Next]_vars PROVE MailedInv'
  OBVIOUS
<1>0. /\ \A a \in Auction, u \in User : mails[a][u] \in Nat
      /\ \A a \in Auction : bids[a] \in Seq(Bid) /\ participants(bids[a]) \subseteq User
      /\ \A r \in Slot : run[r].at \in Sending => run[r].auction \in Auction
      /\ \A r \in Slot : run[r].told \subseteq User
      /\ logged \subseteq Auction /\ Seller \in User
  <2>1. \A a \in Auction, u \in User : mails[a][u] \in Nat
    BY DEF RunInv, TypeOK
  <2>2. \A a \in Auction : bids[a] \in Seq(Bid)
    BY DEF RunInv, TypeOK
  <2>3. \A a \in Auction : participants(bids[a]) \subseteq User
    BY <2>2, RowsTyped DEF participants
  <2>4. /\ \A r \in Slot : run[r].at \in Sending => run[r].auction \in Auction
        /\ \A r \in Slot : run[r].told \subseteq User
        /\ logged \subseteq Auction
    BY DEF RunInv, RunOK, TypeOK
  <2>. QED
    BY <2>1, <2>2, <2>3, <2>4, SchedulerAssumption
\* Once everybody has been mailed he stays so.
<1>1. ASSUME \A a \in Auction, u \in User : mails'[a][u] \in Nat /\ mails'[a][u] >= mails[a][u],
             NEW a \in Auction, AllMailed(a), bids'[a] = bids[a]
      PROVE  bids'[a] # <<>> => \A u \in participants(bids'[a]) \cup {Seller} : mails'[a][u] >= 1
  BY <1>0, <1>1 DEF AllMailed
\* A step of run r: what it has to be true of r itself and of the log.
<1>2. ASSUME NEW r \in Slot, Others(r), UNCHANGED <<bids, late>>, faults' = 0 => faults = 0,
             \A a \in Auction, u \in User : mails'[a][u] \in Nat /\ mails'[a][u] >= mails[a][u],
             run'[r].at \notin {"mail", "log"} => run'[r].told = {},
             run'[r].at = "mail" /\ run'[r].auction \notin late =>
               run'[r].rows = Len(bids[run'[r].auction]),
             faults' = 0 /\ run'[r].at = "mail" => \A u \in run'[r].told : mails'[run'[r].auction][u] >= 1,
             faults' = 0 /\ run'[r].at = "log" /\ run'[r].auction \notin late =>
               LET a == run'[r].auction
               IN  bids[a] # <<>> => \A u \in participants(bids[a]) \cup {Seller} : mails'[a][u] >= 1,
             \A a \in logged' :
               a \in logged \/ (run[r].at = "log" /\ a = run[r].auction)
      PROVE  MailedInv'
  <2>1. \A s \in Slot : run'[s].at \notin {"mail", "log"} => run'[s].told = {}
    BY <1>2 DEF MailedInv, Others
  <2>2. \A s \in Slot : run'[s].at = "mail" /\ run'[s].auction \notin late' =>
                         run'[s].rows = Len(bids'[run'[s].auction])
    BY <1>2 DEF MailedInv, Others
  <2>3. ASSUME faults' = 0, NEW s \in Slot
        PROVE  /\ run'[s].at = "mail" => \A u \in run'[s].told : mails'[run'[s].auction][u] >= 1
               /\ run'[s].at = "log" /\ run'[s].auction \notin late' => AllMailed(run[s].auction)'
    <3>1. CASE s = r
      BY <1>2, <2>3, <3>1 DEF AllMailed
    <3>2. CASE s # r
      <4>1. run'[s] = run[s] /\ faults = 0
        BY <1>2, <2>3, <3>2 DEF Others
      <4>2. ASSUME run[s].at = "mail", NEW u \in run[s].told PROVE mails'[run[s].auction][u] >= 1
        <5>1. run[s].auction \in Auction /\ u \in User
          BY <1>0, <4>2 DEF Sending
        <5>2. mails[run[s].auction][u] >= 1
          BY <4>1, <4>2 DEF MailedInv
        <5>. QED
          BY <1>0, <1>2, <5>1, <5>2
      <4>3. ASSUME run[s].at = "log", run[s].auction \notin late PROVE AllMailed(run[s].auction)'
        <5>1. run[s].auction \in Auction
          BY <1>0, <4>3 DEF Sending
        <5>2. AllMailed(run[s].auction)
          BY <4>1, <4>3 DEF MailedInv
        <5>. QED
          BY <1>1, <1>2, <4>1, <5>1, <5>2 DEF AllMailed
      <4>. QED
        BY <1>2, <4>1, <4>2, <4>3
    <3>. QED
      BY <3>1, <3>2
  <2>4. ASSUME faults' = 0, NEW a \in logged' \ late' PROVE AllMailed(a)'
    <3>1. a \in Auction /\ AllMailed(a)
      <4>1. CASE a \in logged
        BY <1>0, <1>2, <2>4, <4>1 DEF MailedInv
      <4>2. CASE run[r].at = "log" /\ a = run[r].auction
        BY <1>0, <1>2, <2>4, <4>2 DEF MailedInv, Sending
      <4>. QED
        BY <1>2, <4>1, <4>2
    <3>. QED
      BY <1>1, <1>2, <3>1 DEF AllMailed
  <2>. QED
    BY <2>1, <2>2, <2>3, <2>4 DEF MailedInv
\* A step that mails nobody and brings nobody to his list or to the log.
<1>3. ASSUME NEW r \in Slot, Others(r), UNCHANGED <<bids, logged, mails, late>>, faults' = 0 => faults = 0,
             run[r].at \notin {"mail", "log"}, run'[r].at \notin {"mail", "log"},
             run'[r].told \in {{}, run[r].told}
      PROVE  MailedInv'
  <2>1. run'[r].told = {}
    BY <1>3 DEF MailedInv
  <2>2. \A a \in Auction, u \in User : mails'[a][u] \in Nat /\ mails'[a][u] >= mails[a][u]
    BY <1>0, <1>3
  <2>. QED
    BY <1>2, <1>3, <2>1, <2>2
<1>4. ASSUME NEW r \in Slot,
             Tick(r) \/ MarkAuctionsActive(r) \/ MarkAuctionsEnded(r) \/ GetRecentlyEndedAuctionIDs(r)
      PROVE  MailedInv'
  <2>1. /\ Others(r) /\ UNCHANGED <<bids, logged, mails, late>> /\ (faults' = 0 => faults = 0)
        /\ run'[r].at \notin {"mail", "log"} /\ run'[r].told \in {{}, run[r].told}
    BY <1>4, RestingStep DEF Sending, mailVars
  <2>2. run[r].at \notin {"mail", "log"}
    BY <1>4 DEF Tick, MarkAuctionsActive, MarkAuctionsEnded, GetRecentlyEndedAuctionIDs
  <2>. QED
    BY <1>3, <2>1, <2>2
<1>5. ASSUME NEW r \in Slot, NEW c \in Auction, HasAuctionEmailBeenSent(r, c) PROVE MailedInv'
  <2>1. /\ Others(r) /\ UNCHANGED <<bids, logged, mails, late>> /\ (faults' = 0 => faults = 0)
        /\ run'[r].at \notin {"mail", "log"} /\ run'[r].told \in {{}, run[r].told}
    BY <1>5, CheckStep DEF Sending, mailVars
  <2>2. run[r].at \notin {"mail", "log"}
    BY <1>5 DEF HasAuctionEmailBeenSent
  <2>. QED
    BY <1>3, <2>1, <2>2
\* What is not mailed at all is not owed: there is no bid.
<1>6. ASSUME NEW r \in Slot, GetAuction(r) \/ GetHighestBid(r) \/ GetWinner(r) PROVE MailedInv'
  <2>1. /\ Others(r) /\ UNCHANGED <<bids, logged, mails, late>> /\ (faults' = 0 => faults = 0 /\ ~Fault)
        /\ run'[r].at # "mail" /\ run'[r].told \in {{}, run[r].told}
        /\ run[r].at \in {"auction", "highest", "winner"}
        /\ run'[r].at = "log" => /\ run'[r].auction = run[r].auction
                                 /\ status[run[r].auction] # "ENDED" \/ bids[run[r].auction] = <<>> \/ Fault
    BY <1>6, LookupStep DEF mailVars, Sending
  <2>2. CASE run'[r].at # "log"
    BY <1>3, <2>1, <2>2
  <2>3. CASE run'[r].at = "log"
    <3>1. faults' = 0 => bids[run'[r].auction] = <<>>
      BY <2>1, <2>3 DEF EndedInv, Sending
    <3>2. \A a \in Auction, u \in User : mails'[a][u] \in Nat /\ mails'[a][u] >= mails[a][u]
      BY <1>0, <2>1
    <3>. QED
      BY <1>2, <2>1, <2>3, <3>1, <3>2
  <2>. QED
    BY <2>2, <2>3
<1>7. ASSUME NEW r \in Slot, GetBids(r) PROVE MailedInv'
  <2>1. /\ Others(r) /\ UNCHANGED <<bids, logged, mails, late>> /\ (faults' = 0 => faults = 0)
        /\ run[r].at = "bids" /\ run[r].told = {}
    BY <1>7, ListStep DEF MailedInv
  <2>2. \/ run'[r].at = "mail" /\ run'[r].told = {} /\ run'[r].rows = Len(bids[run'[r].auction])
        \/ run'[r].at \in {"idle", "check"} /\ run'[r].told = {}
    BY <1>7, <2>1, ListStep
  <2>3. \A a \in Auction, u \in User : mails'[a][u] \in Nat /\ mails'[a][u] >= mails[a][u]
    BY <1>0, <2>1
  <2>. QED
    BY <1>2, <2>1, <2>2, <2>3
\* A mail adds to what was mailed.
<1>8. ASSUME NEW a \in Auction, NEW v \in User, NEW w, MailTo(a, v, w)
      PROVE  /\ \A c \in Auction, u \in User : mails'[c][u] \in Nat /\ mails'[c][u] >= mails[c][u]
             /\ faults' = 0 => mails'[a][v] >= 1
  <2>1. \A c \in Auction, u \in User : mails'[c][u] \in {mails[c][u], mails[c][u] + 1}
    BY <1>8 DEF MailTo
  <2>2. faults' = 0 => mails'[a][v] = mails[a][v] + 1
    BY <1>8 DEF MailTo
  <2>. QED
    BY <1>0, <2>1, <2>2
<1>9. ASSUME NEW r \in Slot, MailBidder(r) PROVE MailedInv'
  <2>1. PICK v \in User : /\ run'[r].told = run[r].told \cup {v}
                          /\ MailTo(run[r].auction, v, run[r].winner.sender)
    BY <1>9, BidderStep
  <2>2. /\ Others(r) /\ UNCHANGED <<bids, logged, late>> /\ (faults' = 0 => faults = 0)
        /\ run[r].at = "mail" /\ run'[r].at = "mail" /\ run'[r].auction = run[r].auction
        /\ run'[r].rows = run[r].rows /\ run[r].auction \in Auction
    BY <1>9, BidderStep
  <2>3. /\ \A a \in Auction, u \in User : mails'[a][u] \in Nat /\ mails'[a][u] >= mails[a][u]
        /\ faults' = 0 => mails'[run[r].auction][v] >= 1
    BY <1>8, <2>1, <2>2
  <2>4. ASSUME faults' = 0, NEW u \in run'[r].told PROVE mails'[run[r].auction][u] >= 1
    <3>1. CASE u = v
      BY <2>3, <2>4, <3>1
    <3>2. CASE u # v
      <4>1. u \in User /\ mails[run[r].auction][u] >= 1
        BY <1>0, <2>1, <2>2, <2>4, <3>2 DEF MailedInv
      <4>. QED
        BY <1>0, <2>2, <2>3, <4>1
    <3>. QED
      BY <3>1, <3>2
  <2>5. run[r].auction \notin late => run[r].rows = Len(bids[run[r].auction])
    BY <2>2 DEF MailedInv
  <2>. QED
    BY <1>2, <2>2, <2>3, <2>4, <2>5
<1>10. ASSUME NEW r \in Slot, MailSeller(r) PROVE MailedInv'
  <2>. DEFINE a == run[r].auction
  <2>1. /\ Others(r) /\ UNCHANGED <<bids, logged, late>> /\ (faults' = 0 => faults = 0)
        /\ run[r].at = "mail" /\ run'[r].at = "log" /\ run'[r].auction = a
        /\ a \in Auction /\ Untold(r) = {}
    BY <1>10, SellerStep
  <2>2. /\ \A c \in Auction, u \in User : mails'[c][u] \in Nat /\ mails'[c][u] >= mails[c][u]
        /\ faults' = 0 /\ Seller \notin run[r].told => mails'[a][Seller] >= 1
    <3>1. CASE Seller \in run[r].told /\ UNCHANGED mails
      BY <1>0, <3>1
    <3>2. CASE Seller \notin run[r].told /\ MailTo(a, Seller, run[r].winner.sender)
      BY <1>0, <1>8, <2>1, <3>2
    <3>. QED
      BY <1>10, <3>1, <3>2, SellerStep
  <2>3. a \notin late => participants(bids[a]) \subseteq run[r].told
    <3>1. a \notin late => run[r].rows = Len(bids[a])
      BY <2>1 DEF MailedInv
    <3>2. DOMAIN bids[a] = 1..Len(bids[a])
      BY <1>0, <2>1, RowsTyped
    <3>. QED
      BY <2>1, <3>1, <3>2 DEF Untold, participants
  <2>4. ASSUME faults' = 0, a \notin late, NEW u \in participants(bids[a]) \cup {Seller}
        PROVE  mails'[a][u] >= 1
    <3>1. u \in User
      BY <1>0, <2>1
    <3>2. CASE u \in run[r].told
      <4>1. mails[a][u] >= 1
        BY <2>1, <2>4, <3>2 DEF MailedInv
      <4>. QED
        BY <1>0, <2>1, <2>2, <3>1, <4>1
    <3>3. CASE u \notin run[r].told
      BY <2>2, <2>3, <2>4, <3>3
    <3>. QED
      BY <3>2, <3>3
  <2>. QED
    BY <1>2, <2>1, <2>2, <2>4
<1>11. ASSUME NEW r \in Slot, LogAuctionEmailSent(r) PROVE MailedInv'
  <2>1. /\ Others(r) /\ UNCHANGED <<bids, mails, late>> /\ (faults' = 0 => faults = 0)
        /\ run[r].at = "log" /\ run'[r].at \notin {"mail", "log"} /\ run'[r].told = {}
        /\ logged' \subseteq logged \cup {run[r].auction}
    BY <1>11, LogStep DEF mailVars
  <2>2. \A a \in Auction, u \in User : mails'[a][u] \in Nat /\ mails'[a][u] >= mails[a][u]
    BY <1>0, <2>1
  <2>. QED
    BY <1>2, <2>1, <2>2
<1>12. CASE Crash
  <2>1. \A r \in Slot : run'[r].at = "idle" /\ run'[r].told = {}
    BY <1>12 DEF Crash, Idle
  <2>2. faults' # 0
    BY <1>12, FaultTyped DEF Crash, RunInv, TypeOK
  <2>. QED
    BY <2>1, <2>2 DEF MailedInv
\* A bid that comes after the end makes its auction late.
<1>13. ASSUME NEW a \in Auction, NEW b \in Bid, InsertBid(a, b) PROVE MailedInv'
  <2>1. /\ UNCHANGED <<run, logged, mails, faults>>
        /\ late' = IF status[a] = "ENDED" THEN late \cup {a} ELSE late
        /\ \A c \in Auction \ {a} : bids'[c] = bids[c]
    BY <1>13, InsertTyped, RunInvParts DEF InsertBid, mailVars
  <2>2. ASSUME NEW c \in Auction, status[c] = "ENDED", c \notin late' PROVE bids'[c] = bids[c] /\ c \notin late
    BY <2>1, <2>2
  <2>3. \A r \in Slot : run'[r].at = "mail" /\ run'[r].auction \notin late' =>
                          run'[r].rows = Len(bids'[run'[r].auction])
    BY <1>0, <2>1, <2>2 DEF MailedInv, EndedInv, Sending
  <2>4. ASSUME faults' = 0, NEW r \in Slot, run'[r].at = "log", run'[r].auction \notin late'
        PROVE  AllMailed(run[r].auction)'
    <3>1. run[r].auction \in Auction /\ status[run[r].auction] = "ENDED"
      BY <1>0, <2>1, <2>4 DEF EndedInv, Sending
    <3>2. bids'[run[r].auction] = bids[run[r].auction] /\ run[r].auction \notin late
      BY <2>1, <2>2, <2>4, <3>1
    <3>3. AllMailed(run[r].auction)
      BY <2>1, <2>4, <3>2 DEF MailedInv
    <3>. QED
      BY <2>1, <3>2, <3>3 DEF AllMailed
  <2>5. ASSUME faults' = 0, NEW c \in logged' \ late' PROVE AllMailed(c)'
    <3>1. c \in Auction /\ status[c] = "ENDED" /\ c \in logged
      BY <1>0, <2>1, <2>5 DEF EndedInv
    <3>2. bids'[c] = bids[c] /\ c \notin late
      BY <2>2, <2>5, <3>1
    <3>3. AllMailed(c)
      BY <2>1, <2>5, <3>1, <3>2 DEF MailedInv
    <3>. QED
      BY <2>1, <3>2, <3>3 DEF AllMailed
  <2>. QED
    BY <2>1, <2>3, <2>4, <2>5 DEF MailedInv
<1>14. CASE (\E c \in Auction : TimePasses(c) \/ UpdateAuctionClientCount(c)) \/ UNCHANGED vars
  <2>1. UNCHANGED <<run, bids, logged, mails, late, faults>>
    BY <1>14 DEF TimePasses, UpdateAuctionClientCount, vars, auctionVars, mailVars, ghostVars
  <2>. QED
    BY <2>1 DEF MailedInv, AllMailed
<1>. QED
  BY <1>4, <1>5, <1>6, <1>7, <1>9, <1>10, <1>11, <1>12, <1>13, <1>14 DEF Next, RunStep, TableStep

\* An auction is logged only when everybody has been mailed: every bidder the
\* auction's page lists and its seller, unless something failed or a bid came
\* after the end (scheduler.go: the log is written last).
THEOREM LogCorrect == Spec => []LoggedMeansMailed
<1>1. Init => MailedInv
  BY DEF Init, Idle, MailedInv
<1>2. RunInv /\ MailedInv => LoggedMeansMailed
  BY DEF MailedInv, AllMailed, LoggedMeansMailed, GetAuctionByID
<1>. QED
  BY <1>1, <1>2, RunInvariant, EndedInvariant, MailedStep, PTL DEF Spec

-----------------------------------------------------------------------------
(* The winner is mailed.                                                     *)

\* The rows of the list a run goes through that its winner placed.
OwnRows(r) ==
  {i \in 1..run[r].rows : bids[run[r].auction][i].sender = run[r].winner.sender}

\* WinnerMailed needs to know that the winner is on the list: he had a bid when
\* he was read, no bid is ever removed, and the list is read later.
WinnerInv ==
  /\ \A r \in Slot : run[r].at \in {"winner", "bids"} =>
                       run[r].winner.sender \in participants(bids[run[r].auction])
  /\ \A r \in Slot : run[r].at = "mail" => OwnRows(r) # {}
  /\ WinnerMailed

\* The run that holds w for the winner and is still mailing about a.
Holds(r, a, w) == run[r].at = "mail" /\ run[r].auction = a /\ run[r].winner.sender = w

LEMMA WinnerStep == RunInv /\ MailedInv /\ WinnerInv /\ [Next]_vars => WinnerInv'
<1>. SUFFICES ASSUME RunInv, MailedInv, WinnerInv, [Next]_vars PROVE WinnerInv'
  OBVIOUS
<1>0. /\ \A a \in Auction, u \in User : mails[a][u] \in Nat
      /\ named \in [Auction -> SUBSET User]
      /\ faults = 0 => \A a \in Auction : \A w \in named[a] :
                         mails[a][w] >= 1 \/ \E r \in Slot : Holds(r, a, w)
  BY DEF RunInv, TypeOK, WinnerInv, WinnerMailed, Holds
\* A step of run r that names nobody and does not end its mails.
<1>1. ASSUME NEW r \in Slot, Others(r), UNCHANGED <<bids, mails, named>>, faults' = 0 => faults = 0,
             run[r].at # "mail",
             run'[r].at \in {"winner", "bids"} =>
               run'[r].winner.sender \in participants(bids[run'[r].auction]),
             run'[r].at = "mail" => OwnRows(r)' # {}
      PROVE  WinnerInv'
  <2>1. \A s \in Slot \ {r} : OwnRows(s)' = OwnRows(s)
    BY <1>1 DEF Others, OwnRows
  <2>2. /\ \A s \in Slot : run'[s].at \in {"winner", "bids"} =>
                             run'[s].winner.sender \in participants(bids'[run'[s].auction])
        /\ \A s \in Slot : run'[s].at = "mail" => OwnRows(s)' # {}
    BY <1>1, <2>1 DEF WinnerInv, Others
  <2>3. \A s \in Slot, a \in Auction, w \in User : Holds(s, a, w) => Holds(s, a, w)'
    BY <1>1 DEF Holds, Others
  <2>4. WinnerMailed'
    BY <1>0, <1>1, <2>3 DEF WinnerMailed, Holds
  <2>. QED
    BY <2>2, <2>4 DEF WinnerInv
<1>2. ASSUME NEW r \in Slot,
             \/ Tick(r) \/ MarkAuctionsActive(r) \/ MarkAuctionsEnded(r) \/ GetRecentlyEndedAuctionIDs(r)
             \/ \E c \in Auction : HasAuctionEmailBeenSent(r, c)
             \/ LogAuctionEmailSent(r)
      PROVE  WinnerInv'
  <2>1. /\ Others(r) /\ UNCHANGED <<bids, mails, named>> /\ (faults' = 0 => faults = 0)
        /\ run'[r].at \notin {"winner", "bids", "mail"}
    BY <1>2, RestingStep, CheckStep, LogStep DEF Sending, mailVars
  <2>2. run[r].at # "mail"
    BY <1>2 DEF Tick, MarkAuctionsActive, MarkAuctionsEnded, GetRecentlyEndedAuctionIDs,
                HasAuctionEmailBeenSent, LogAuctionEmailSent
  <2>. QED
    BY <1>1, <2>1, <2>2
\* The winner is the sender of a row.
<1>3. ASSUME NEW r \in Slot, GetAuction(r) \/ GetHighestBid(r) \/ GetWinner(r) PROVE WinnerInv'
  <2>. DEFINE a == run[r].auction
  <2>1. /\ Others(r) /\ UNCHANGED <<bids, mails, named>> /\ (faults' = 0 => faults = 0)
        /\ run[r].at # "mail" /\ run'[r].at # "mail"
        /\ run'[r].at \in {"winner", "bids"} => run'[r].auction = a
        /\ a \in Auction /\ bids[a] \in Seq(Bid)
    BY <1>3, LookupStep DEF Sending, mailVars
  <2>2. CASE run'[r].at = "winner"
    <3>1. bids[a] # <<>> /\ run'[r].winner = GetHighestBidForAuction(bids[a])
      BY <1>3, <2>2, LookupStep
    <3>2. run'[r].winner.sender \in participants(bids[a])
      BY <2>1, <3>1, HighestIsTop DEF Top, participants
    <3>. QED
      BY <1>1, <2>1, <2>2, <3>2
  <2>3. CASE run'[r].at = "bids"
    <3>1. run[r].at = "winner" /\ run'[r].winner = run[r].winner
      BY <1>3, <2>3, LookupStep
    <3>2. run[r].winner.sender \in participants(bids[a])
      BY <3>1 DEF WinnerInv
    <3>. QED
      BY <1>1, <2>1, <3>1, <3>2
  <2>4. CASE run'[r].at \notin {"winner", "bids"}
    BY <1>1, <2>1, <2>4
  <2>. QED
    BY <2>2, <2>3, <2>4
\* The list is the whole table, in which the winner still has his row.
<1>4. ASSUME NEW r \in Slot, GetBids(r) PROVE WinnerInv'
  <2>. DEFINE a == run[r].auction
  <2>1. /\ Others(r) /\ UNCHANGED <<bids, mails, named>> /\ (faults' = 0 => faults = 0)
        /\ run[r].at = "bids" /\ a \in Auction
        /\ \/ /\ run'[r].at = "mail" /\ run'[r].auction = a /\ run'[r].winner = run[r].winner
              /\ run'[r].rows = Len(bids[a])
           \/ run'[r].at \in {"idle", "check"}
    BY <1>4, ListStep
  <2>2. run'[r].at = "mail" => OwnRows(r)' # {}
    <3>1. run[r].winner.sender \in participants(bids[a]) /\ bids[a] \in Seq(Bid)
      BY <2>1 DEF WinnerInv, RunInv, TypeOK
    <3>2. PICK i \in 1..Len(bids[a]) : bids[a][i].sender = run[r].winner.sender
      BY <3>1, RowsTyped DEF participants
    <3>. QED
      BY <2>1, <3>2 DEF OwnRows
  <2>. QED
    BY <1>1, <2>1, <2>2
\* A mail names the winner the run holds.
<1>5. ASSUME NEW r \in Slot, MailBidder(r) PROVE WinnerInv'
  <2>. DEFINE a == run[r].auction
              h == run[r].winner.sender
  <2>1. /\ Others(r) /\ UNCHANGED bids /\ (faults' = 0 => faults = 0) /\ a \in Auction
        /\ run[r].at = "mail" /\ run'[r].at = "mail" /\ run'[r].auction = a
        /\ run'[r].winner = run[r].winner /\ run'[r].rows = run[r].rows
    BY <1>5, BidderStep
  <2>2. PICK v \in User : MailTo(a, v, h)
    BY <1>5, BidderStep
  <2>3. /\ \A s \in Slot : OwnRows(s)' = OwnRows(s)
        /\ \A s \in Slot, c \in Auction, w \in User : Holds(s, c, w) => Holds(s, c, w)'
    BY <2>1 DEF OwnRows, Holds, Others
  <2>4. /\ \A s \in Slot : run'[s].at \in {"winner", "bids"} =>
                             run'[s].winner.sender \in participants(bids'[run'[s].auction])
        /\ \A s \in Slot : run'[s].at = "mail" => OwnRows(s)' # {}
    BY <2>1, <2>3 DEF WinnerInv, Others
  <2>5. ASSUME faults' = 0, NEW c \in Auction, NEW w \in named'[c]
        PROVE  mails'[c][w] >= 1 \/ \E s \in Slot : Holds(s, c, w)'
    <3>1. CASE w \in named[c]
      <4>1. w \in User /\ mails'[c][w] \in {mails[c][w], mails[c][w] + 1}
        BY <1>0, <2>2, <3>1 DEF MailTo
      <4>. QED
        BY <1>0, <2>1, <2>3, <2>5, <3>1, <4>1
    <3>2. CASE w \notin named[c]
      <4>1. c = a /\ w = h
        BY <2>2, <3>2 DEF MailTo
      <4>. QED
        BY <2>1, <4>1 DEF Holds
    <3>. QED
      BY <3>1, <3>2
  <2>. QED
    BY <2>4, <2>5 DEF WinnerInv, WinnerMailed, Holds
\* At the end of the list the winner has been told.
<1>6. ASSUME NEW r \in Slot, MailSeller(r) PROVE WinnerInv'
  <2>. DEFINE a == run[r].auction
              h == run[r].winner.sender
  <2>1. /\ Others(r) /\ UNCHANGED bids /\ (faults' = 0 => faults = 0) /\ a \in Auction
        /\ run[r].at = "mail" /\ run'[r].at = "log" /\ Untold(r) = {}
    BY <1>6, SellerStep
  <2>2. /\ \A c \in Auction, u \in User : mails'[c][u] \in {mails[c][u], mails[c][u] + 1}
        /\ \A c \in Auction : named'[c] \subseteq named[c] \cup (IF c = a THEN {h} ELSE {})
    <3>1. CASE UNCHANGED <<mails, named>>
      BY <3>1
    <3>2. CASE MailTo(a, Seller, h)
      BY <3>2 DEF MailTo
    <3>. QED
      BY <1>6, <3>1, <3>2, SellerStep
  <2>3. /\ \A s \in Slot : run'[s].at \in {"winner", "bids"} =>
                             run'[s].winner.sender \in participants(bids'[run'[s].auction])
        /\ \A s \in Slot : run'[s].at = "mail" => OwnRows(s)' # {}
    <3>1. \A s \in Slot \ {r} : OwnRows(s)' = OwnRows(s)
      BY <2>1 DEF OwnRows, Others
    <3>. QED
      BY <2>1, <3>1 DEF WinnerInv, Others
  <2>4. h \in run[r].told /\ h \in User
    <3>1. PICK i \in OwnRows(r) : TRUE
      BY <2>1 DEF WinnerInv
    <3>2. i \in 1..run[r].rows /\ bids[a][i].sender = h
      BY <3>1 DEF OwnRows
    <3>3. h \in run[r].told
      BY <2>1, <3>2 DEF Untold
    <3>. QED
      BY <3>3 DEF RunInv, TypeOK
  <2>5. ASSUME faults' = 0, NEW c \in Auction, NEW w \in named'[c]
        PROVE  mails'[c][w] >= 1 \/ \E s \in Slot : Holds(s, c, w)'
    <3>1. faults = 0
      BY <2>1, <2>5
    <3>2. CASE c = a /\ w = h
      <4>1. mails[a][h] >= 1
        BY <2>1, <2>4, <3>1 DEF MailedInv
      <4>. QED
        BY <1>0, <2>1, <2>2, <2>4, <3>2, <4>1
    <3>3. CASE ~(c = a /\ w = h)
      <4>1. w \in named[c] /\ w \in User
        BY <1>0, <2>2, <3>3
      <4>2. CASE mails[c][w] >= 1
        BY <1>0, <2>2, <4>1, <4>2
      <4>3. CASE mails[c][w] < 1
        <5>1. PICK s \in Slot : Holds(s, c, w)
          BY <1>0, <3>1, <4>1, <4>3
        <5>2. s # r
          BY <3>3, <5>1 DEF Holds
        <5>. QED
          BY <2>1, <5>1, <5>2 DEF Holds, Others
      <4>. QED
        BY <1>0, <4>1, <4>2, <4>3
    <3>. QED
      BY <3>2, <3>3
  <2>. QED
    BY <2>3, <2>5 DEF WinnerInv, WinnerMailed, Holds
<1>7. CASE Crash
  <2>1. \A r \in Slot : run'[r].at = "idle"
    BY <1>7 DEF Crash, Idle
  <2>2. faults' # 0
    BY <1>7, FaultTyped DEF Crash, RunInv, TypeOK
  <2>. QED
    BY <2>1, <2>2 DEF WinnerInv, WinnerMailed
\* No row is removed or changed.
<1>8. ASSUME NEW a \in Auction, NEW b \in Bid, InsertBid(a, b) PROVE WinnerInv'
  <2>1. UNCHANGED <<run, mails, named, faults>>
    BY <1>8 DEF InsertBid, mailVars
  <2>2. /\ \A c \in Auction \ {a} : bids'[c] = bids[c]
        /\ bids' \in [Auction -> Seq(Bid)] /\ bids \in [Auction -> Seq(Bid)]
        /\ Len(bids[a]) \in Nat /\ Len(bids'[a]) = Len(bids[a]) + 1
        /\ \A i \in 1..Len(bids[a]) : bids'[a][i] = bids[a][i]
    BY <1>8, InsertTyped, RunInvParts DEF RestTyped
  <2>3. \A c \in Auction : \A i \in 1..Len(bids[c]) : i \in 1..Len(bids'[c]) /\ bids'[c][i] = bids[c][i]
    BY <2>2
  <2>4. /\ \A c \in Auction : DOMAIN bids[c] = 1..Len(bids[c])
        /\ \A c \in Auction : DOMAIN bids'[c] = 1..Len(bids'[c])
    BY <2>2, RowsTyped
  <2>5. \A c \in Auction : participants(bids[c]) \subseteq participants(bids'[c])
    BY <2>3, <2>4 DEF participants
  <2>6. \A r \in Slot : run[r].at \in {"winner", "bids", "mail"} => run[r].auction \in Auction
    BY DEF RunInv, RunOK, Sending
  <2>7. \A r \in Slot : run[r].at = "mail" => OwnRows(r) \subseteq OwnRows(r)'
    <3>1. \A r \in Slot : run[r].at = "mail" => run[r].rows \in 1..Len(bids[run[r].auction])
      BY DEF RunInv, RunOK
    <3>2. \A r \in Slot : run[r].at = "mail" => 1..run[r].rows \subseteq 1..Len(bids[run[r].auction])
      <4>1. \A c \in Auction : Len(bids[c]) \in Nat
        BY <2>2, RowsTyped
      <4>. QED
        BY <2>6, <3>1, <4>1
    <3>. QED
      BY <2>1, <2>3, <2>6, <3>2 DEF OwnRows
  <2>8. WinnerMailed'
    BY <2>1 DEF WinnerInv, WinnerMailed
  <2>. QED
    BY <2>1, <2>5, <2>6, <2>7, <2>8 DEF WinnerInv
<1>9. CASE (\E c \in Auction : TimePasses(c) \/ UpdateAuctionClientCount(c)) \/ UNCHANGED vars
  <2>1. UNCHANGED <<run, bids, mails, named, faults>>
    BY <1>9 DEF TimePasses, UpdateAuctionClientCount, vars, auctionVars, mailVars, ghostVars
  <2>. QED
    BY <2>1 DEF WinnerInv, WinnerMailed, OwnRows
<1>. QED
  BY <1>2, <1>3, <1>4, <1>5, <1>6, <1>7, <1>8, <1>9 DEF Next, RunStep, TableStep

\* Whomever a mail names as the winner is mailed himself, as long as nothing
\* failed, whatever bids are stored between the queries and between the mails
\* (mail.go: the highest bid is read before the list, and once).
THEOREM WinnerCorrect == Spec => []WinnerMailed
<1>1. Init => WinnerInv
  BY DEF Init, Idle, WinnerInv, WinnerMailed
<1>2. Init => MailedInv
  BY DEF Init, Idle, MailedInv
<1>3. WinnerInv => WinnerMailed
  BY DEF WinnerInv
<1>. QED
  BY <1>1, <1>2, <1>3, RunInvariant, EndedInvariant, MailedStep, WinnerStep, PTL DEF Spec
====
