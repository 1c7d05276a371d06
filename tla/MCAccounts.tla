----------------------------- MODULE MCAccounts -----------------------------
(* Two browsers, two users of Google or Apple and a vault of each kind. *)
EXTENDS Accounts, TLC

CONSTANTS b1, b2, alice, bob, vb, vc, key1, key2

Started == <<alice, bob>>

Symmetry == Permutations({b1, b2}) \cup Permutations({key1, key2})
=============================================================================
