------------------------- MODULE AuctionSchedulerMC -------------------------
(***************************************************************************)
(* Instances of AuctionScheduler for TLC.                                  *)
(***************************************************************************)
EXTENDS AuctionScheduler

CONSTANTS u1, u2, a1

TwoUsers == {u1, u2}
=============================================================================
