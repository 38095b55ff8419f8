---------------------------- MODULE HubManagerMC ----------------------------
(***************************************************************************)
(* Instances of HubManager for TLC.                                        *)
(***************************************************************************)
EXTENDS HubManager, TLC

CONSTANTS u1, u2, j1, j2

TwoUsers == {u1, u2}
TwoJoiners == {j1, j2}
EachAlike == Permutations(TwoUsers) \cup Permutations(TwoJoiners)
=============================================================================
