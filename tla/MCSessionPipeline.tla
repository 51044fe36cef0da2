------------------------- MODULE MCSessionPipeline -------------------------
(***************************************************************************)
(* Small instances of SessionPipeline: four records of two projects over a *)
(* channel with room for one and a batch of two, so that senders queue, a  *)
(* batch fills up, and a flush spans both projects.                        *)
(***************************************************************************)
EXTENDS SessionPipeline

CONSTANTS s1, s2, s3, s4, projA, projB

MCSessions  == {s1, s2, s3, s4}
MCProjects  == {projA, projB}
MCProjectOf == [s \in MCSessions |-> IF s \in {s1, s4} THEN projA ELSE projB]
=============================================================================
