--------------------------- MODULE MCCollabAccess ---------------------------
(* Small instances of CollabAccess: one owner, who created the groups. *)
EXTENDS CollabAccess, TLC

CONSTANT u1

OneCreator == [g \in Group |-> u1]
Symmetry == Permutations(Req) \cup Permutations(Group)
=============================================================================
