--------------------------- MODULE MCQueueClient ---------------------------
(***************************************************************************)
(* Two callers want the same image (key "i"); one of them also a video     *)
(* that depends on it. There is one row for each: a request for the image  *)
(* after it has ended finds no row to insert.                              *)
(***************************************************************************)
EXTENDS QueueClient

CONSTANTS i1, v1

MCTask == {i1, v1}
MCProject == {"p"}
MCProjectOf == [t \in MCTask |-> "p"]
MCKey == [t \in MCTask |-> IF t = v1 THEN "v" ELSE "i"]
MCDep == [t \in MCTask |-> IF t = v1 THEN i1 ELSE NoTask]

MCClient == {"batch", "single"}
MCSpecsOf ==
  [c \in MCClient |->
     IF c = "batch" THEN <<[key |-> "i", dep |-> 0], [key |-> "v", dep |-> 1]>>
                    ELSE <<[key |-> "i", dep |-> 0]>>]
=============================================================================
