------------------------- MODULE MCSessionTimeline -------------------------
(***************************************************************************)
(* Two users; the first one's request is repeated.                         *)
(***************************************************************************)
EXTENDS SessionTimeline

CONSTANTS p1, p1again, p2

MCPost == {p1, p1again, p2}
MCMessage == {"m1", "m2"}
MCMessageOf == [p \in MCPost |-> IF p = p2 THEN "m2" ELSE "m1"]

(* The two requests of the first user are interchangeable.                 *)
Repeats == Permutations({p1, p1again})
=============================================================================
