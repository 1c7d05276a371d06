---------------------------- MODULE MCX402Gateway ----------------------------
(* Small instances of X402Gateway: a payment that comes with an upload and   *)
(* again with a top-up, and an object that two payments upload.              *)
EXTENDS X402Gateway, TLC

CONSTANTS r1, r2, r3, p1, p2, k1, d1

Payments == (r1 :> p1) @@ (r2 :> p2) @@ (r3 :> p1)
Keys     == (r1 :> k1) @@ (r2 :> k1) @@ (r3 :> NoKey)

(* What happens in a behaviour: the requests that are let in, the others are *)
(* refused when they come; the DELETEs; and how many failures there may be.  *)
Plans == { [sent |-> {r1, r3}, dels |-> {d1}, left |-> MaxFaults],
           [sent |-> {r1, r2}, dels |-> {d1}, left |-> 0],
           [sent |-> {r1, r2}, dels |-> {},   left |-> 1] }

PlanInit ==
  \E plan \in Plans :
    /\ log      = [p \in Payment |-> "none"]
    /\ object   = [k \in Key |-> NoObject]
    /\ s3       = [k \in Key |-> NoReq]
    /\ expired  = {} /\ taken = {}
    /\ credited = [p \in Payment |-> 0]
    /\ req      = [r \in Req |-> IF r \in plan.sent THEN "new" ELSE "done"]
    /\ clean    = [c \in Cleaner |-> IdleClean]
    /\ del      = [d \in Deleter |->
                     [pc |-> IF d \in plan.dels THEN "new" ELSE "done", key |-> NoKey]]
    /\ hidden = {} /\ faults = MaxFaults - plan.left

PlanSpec == PlanInit /\ [][Next]_vars /\ Fairness
=============================================================================
