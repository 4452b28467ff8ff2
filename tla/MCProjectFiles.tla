--------------------------- MODULE MCProjectFiles ---------------------------
EXTENDS ProjectFiles
CONSTANTS a, b, c, s1, s2, m1, m2

Through(m, k, s) == [kind |-> k, script |-> s, via |-> m]
Does(k, s) == Through(m1, k, s)
Reads == Through(m2, "read", s1)

(* Two kinds of instance. MCPlans: an edit of the episode's script while   *)
(* another script is generated that takes the episode over; edits of       *)
(* project.json, one through a manager that does not have the project; an  *)
(* edit of a script; beside each of them readers, through either manager.  *)
(* Contended: three jobs that contend for the same files and locks.        *)
MCJob == {a, b, c}
Three(x, y, z) == [j \in MCJob |-> IF j = a THEN x ELSE IF j = b THEN y ELSE z]
MCPlans ==
  {Three(Does("episode", s1), Does("generate", s2), Does("read", s1)),
   Three(Does("project", s1), Through(m2, "project", s1), Does("read", s1)),
   Three(Does("script", s1), Reads, Does("read", s1))}
Contended ==
  {Three(Does("episode", s1), Does("script", s1), Does("generate", s2)),
   Three(Does("episode", s1), Does("generate", s2), Reads),
   Three(Does("project", s1), Through(m2, "script", s1), Reads),
   Three(Does("project", s1), Does("project", s1), Does("generate", s1))}
MCWarm == {{m1}}
Updates == {[j \in MCJob |-> Does("project", s1)]}
Browsing == {Three(Does("project", s1), Does("script", s1), Reads)}
=============================================================================
