------------------------- MODULE MCDepositIngestion -------------------------
(* Small instances of DepositIngestion. *)
EXTENDS DepositIngestion, TLC

CONSTANTS u1, u2, w1, t1, t2

\* Two transfers of one wallet, in blocks 1 and 2.
MCSender == (t1 :> w1) @@ (t2 :> w1)
MCBlock  == (t1 :> 1) @@ (t2 :> 2)

\* One transfer only.
OneSender == t1 :> w1
OneBlock  == t1 :> 1

LinkedAtStart == {<<u1, w1>>}
NoLinks       == {}
=============================================================================
