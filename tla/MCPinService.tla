---------------------------- MODULE MCPinService ----------------------------
(* Instances of PinService for TLC.                                        *)
EXTENDS PinService, TLC

MCRows  == 1..4
MCSettled == 1..1
MCCalls == 1..3

Renaming == Permutations(User) \cup Permutations(Cid)
=============================================================================
