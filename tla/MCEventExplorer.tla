--------------------------- MODULE MCEventExplorer ---------------------------
(***************************************************************************)
(* Four events, the last one yet to come, in two projects; the third is of *)
(* the other type.  Pages of one or two.                                   *)
(***************************************************************************)
EXTENDS EventExplorer

CONSTANTS shop, blog, error, custom

MCProjects == {shop, blog}
MCTypes == {error, custom}
MCProjectOf == [e \in 1..4 |-> IF e = 2 THEN blog ELSE shop]
MCTypeOf == [e \in 1..4 |-> IF e = 3 THEN custom ELSE error]
MCLimits == {1, 2}
=============================================================================
