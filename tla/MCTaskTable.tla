---------------------------- MODULE MCTaskTable ----------------------------
(***************************************************************************)
(* TaskTable on one batch: a chain of three storyboards (t2 waits for t1,  *)
(* t3 for t2) and t4, a second request for t1's image in the same project. *)
(***************************************************************************)
EXTENDS TaskTable

CONSTANTS t1, t2, t3, t4

MCTask == {t1, t2, t3, t4}
MCProject == {"p"}
MCProjectOf == [t \in MCTask |-> "p"]
MCKey == [t \in MCTask |-> IF t = t4 THEN t1 ELSE t]
MCDep == [t \in MCTask |-> IF t = t2 THEN t1 ELSE IF t = t3 THEN t2 ELSE NoTask]
=============================================================================
