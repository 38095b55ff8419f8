-------------------------------- MODULE HubMC --------------------------------
(* Small instances of Hub for TLC. *)
EXTENDS Hub, TLC

CONSTANTS c1, c2

\* Every connection belongs to a user of its own: User = Client.
OwnUser == [c \in {c1, c2} |-> c]
OwnSender == [c \in {c1, c2} |-> {c}]
AnySender == [c \in {c1, c2} |-> {c1, c2}]
EachAlike == Permutations({c1, c2})

NoticeReply == {Notice}
NoReply == {}
=============================================================================
