--------------------------- MODULE MCCreditLedger ---------------------------
(* Instances of CreditLedger for TLC.                                      *)
EXTENDS CreditLedger, TLC

CONSTANTS t1, t2

MCTxns  == {t1, t2}
MCUsers == 1..3

\* Two users who invited each other, as concurrent sign-ups can leave them,
\* and one of their invitees.
CycleGraph == (1 :> 2) @@ (2 :> 1) @@ (3 :> 2)

\* A credit with a bonus on both levels, and a charge.
MCAmounts == {60, -60}
=============================================================================
