-------------------------- MODULE MCCollabManifest --------------------------
(* CollabManifest for TLC: one tab, whose user may be the creator or not. *)
EXTENDS CollabManifest, TLC

CONSTANTS t1, u1, u2
OneEach == t1 :> u1
=============================================================================
