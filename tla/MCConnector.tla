---------------------------- MODULE MCConnector ----------------------------
(* Two accounts and two AIs in the two tabs of a browser. *)
EXTENDS Connector

CONSTANTS ann, bob, claude, gpt
=============================================================================
