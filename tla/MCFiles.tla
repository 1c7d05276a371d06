------------------------------ MODULE MCFiles ------------------------------
(* A chunked file, a small one in a bucket of its own, and one whose metadata *)
(* the raw listing cannot decrypt.                                            *)
EXTENDS Files

CONSTANTS video, note, lost, media, papers

HomeDef == (video :> media) @@ (note :> papers) @@ (lost :> papers)
ShapeDef == (video :> "chunked") @@ (note :> "block") @@ (lost :> "plain")
Events == [s \in Scene |-> 3]
=============================================================================
