---------------------------- MODULE AuctionRoomMC ----------------------------
(* Small instances of AuctionRoom for TLC. *)
EXTENDS AuctionRoom, TLC

CONSTANTS c1, c2

OwnUser == [c \in {c1, c2} |-> c]
OneUser == [c \in {c1} |-> c]
OwnSender == [c \in {c1, c2} |-> {c}]
OneSender == [c \in {c1} |-> {c}]
EachAlike == Permutations({c1, c2})
=============================================================================
