------------------------------ MODULE MCAiJobs -------------------------------
EXTENDS AiJobs, TLC
CONSTANTS r1, r2, r3, k1
\* Three posts that fill the queue; two sent with one key, and a third; and a
\* post beside two websites.
ThreeMixes ==
  { [r \in Req |-> NoKey], (r1 :> k1) @@ (r2 :> k1) @@ (r3 :> NoKey),
    (r1 :> NoKey) @@ (r2 :> Website) @@ (r3 :> Website) }
=============================================================================
