----------------------------- MODULE MCAiService -----------------------------
(* A website of alice with two builds: in a group, each by itself, or one with *)
(* the id of the other as its group; and room for one build more, of alice or  *)
(* of bob.                                                                     *)
EXTENDS AiService

CONSTANTS b1, b2, b3, alice, bob, tag

Built(b, n, group) ==
  [NewBuild EXCEPT !.status = "completed", !.owner = alice, !.group = group, !.listed = TRUE,
                   !.at = n, !.cid = b, !.source = TRUE]
Tables ==
  {[b \in Build |-> IF b = b1 THEN Built(b1, 1, g[1]) ELSE IF b = b2 THEN Built(b2, 2, g[2]) ELSE NewBuild] :
     g \in {<<tag, tag>>, <<None, None>>, <<None, b1>>}}
=============================================================================
